---- MODULE Spec2Model ----
(***************************************************************************)
(* A model of dot-spend's bank-statement import pipeline: the format       *)
(* parsers, the duplicate detector, the rule and statistical categorizers, *)
(* the JSON/SQLite expense store and the `import` command that sequences   *)
(* them.                                                                   *)
(*                                                                         *)
(* Text (descriptions, notes, patterns, categories, column names) is a     *)
(* sequence of one-character strings, so that upper(), lower() and         *)
(* substring containment are computed and not assumed.  Amounts are IEEE   *)
(* doubles in the program; here an amount is a record [nan, v] where v     *)
(* counts thousandths of a currency unit and nan marks the not-a-number    *)
(* value.  A date string is a record [kind, t]: kind "iso" is a string     *)
(* datetime.fromisoformat accepts, "other" one only dateutil accepts,      *)
(* "junk" one that neither accepts; t is the instant in hours.             *)
(***************************************************************************)
EXTENDS Integers, Sequences, FiniteSets, TLC

VARIABLES
    store,          \* the persisted expense list (expenses.json / expenses table)
    pc,             \* position of the running import_file command
    args,           \* import_file's arguments and the operator's answers
    transactions,   \* import_file: the parsed transactions
    existing_data,  \* import_file: the snapshot store.get_expenses() returned
    new_txs,        \* import_file: the surviving transactions
    stats,          \* import_file: the run statistics
    idx,            \* import_file: index of the loop in progress
    ml,             \* import_file: the MLCategorizer instance (model, is_trained)
    outcome,        \* import_file: how the command ended (its last report)
    store0,         \* history: the expense list when the command started
    history,        \* the undo log (the "transactions" list of history.json)
    call,           \* a single function application: its name and arguments
    ret             \* that application's outcome

vars == <<store, pc, args, transactions, existing_data, new_txs, stats, idx,
          ml, outcome, store0, history, call, ret>>

importVars == <<store, pc, args, transactions, existing_data, new_txs, stats,
                idx, ml, outcome, store0, history>>

---------------------------------------------------------------------------
(* Text                                                                    *)

LowerAlpha == <<"a","b","c","d","e","f","g","h","i","j","k","l","m",
                "n","o","p","q","r","s","t","u","v","w","x","y","z">>

UpperAlpha == <<"A","B","C","D","E","F","G","H","I","J","K","L","M",
                "N","O","P","Q","R","S","T","U","V","W","X","Y","Z">>

Digits == {"0","1","2","3","4","5","6","7","8","9"}

\* the upper-case and lower-case forms of the letters
UpperOf ==
    [c \in {LowerAlpha[k] : k \in DOMAIN LowerAlpha} |->
        UpperAlpha[CHOOSE k \in DOMAIN LowerAlpha : LowerAlpha[k] = c]]

LowerOf ==
    [c \in {UpperAlpha[k] : k \in DOMAIN UpperAlpha} |->
        LowerAlpha[CHOOSE k \in DOMAIN UpperAlpha : UpperAlpha[k] = c]]

UpperChar(c) == IF c \in DOMAIN UpperOf THEN UpperOf[c] ELSE c

LowerChar(c) == IF c \in DOMAIN LowerOf THEN LowerOf[c] ELSE c

\* str.upper()
Upper(s) == [k \in 1..Len(s) |-> UpperChar(s[k])]

\* str.lower()
Lower(s) == [k \in 1..Len(s) |-> LowerChar(s[k])]

\* needle in hay  (the empty string is in every string)
Contains(hay, needle) ==
    \E k \in 0..(Len(hay) - Len(needle)) :
        SubSeq(hay, k + 1, k + Len(needle)) = needle

---------------------------------------------------------------------------
(* Amounts: doubles, in thousandths, with not-a-number                     *)

Num(v) == [nan |-> FALSE, v |-> v]

NaN == [nan |-> TRUE, v |-> 0]

\* a - b
FSub(a, b) == IF a.nan \/ b.nan THEN NaN ELSE Num(a.v - b.v)

\* abs(a)
FAbs(a) == IF a.nan THEN NaN ELSE Num(IF a.v < 0 THEN -a.v ELSE a.v)

\* a < b and a > b: every comparison with not-a-number is false
FLt(a, b) == ~a.nan /\ ~b.nan /\ a.v < b.v

FGt(a, b) == ~a.nan /\ ~b.nan /\ a.v > b.v

---------------------------------------------------------------------------
(* Date strings                                                            *)

IsoDate(t) == [kind |-> "iso", t |-> t]

OtherDate(t) == [kind |-> "other", t |-> t]

JunkDate == [kind |-> "junk", t |-> 0]

\* datetime.fromisoformat(s) returns normally
FromIsoOk(s) == s.kind = "iso"

\* a timedelta of h hours has .days = floor(h / 24)
HoursPerDay == 24

TimedeltaDays(h) == h \div HoursPerDay

Abs(n) == IF n < 0 THEN -n ELSE n

---------------------------------------------------------------------------
(* deduplication.py                                                        *)

\* abs(e_amt - amt) > 0.01, in thousandths
AmountTolerance == 10

DefaultToleranceDays == 1

AmountFar(e_amt, amt) == FGt(FAbs(FSub(e_amt, amt)), Num(AmountTolerance))

\* desc.upper() not in e_note and e_note not in desc.upper()
DescriptionDiffers(e_note, desc) ==
    /\ ~Contains(Upper(e_note), Upper(desc))
    /\ ~Contains(Upper(desc), Upper(e_note))

\* the try block of the date check: True is returned from inside it
DateMatches(e_timestamp, target_date, tolerance_days) ==
    /\ FromIsoOk(e_timestamp)
    /\ Abs(TimedeltaDays(e_timestamp.t - target_date.t)) <= tolerance_days

\* the for loop over self.existing, from record k on
RECURSIVE ScanExisting(_, _, _, _)
ScanExisting(existing, k, tx, tolerance_days) ==
    IF k > Len(existing) THEN FALSE
    ELSE IF AmountFar(existing[k].amount, tx.amount)
         THEN ScanExisting(existing, k + 1, tx, tolerance_days)
    ELSE IF DescriptionDiffers(existing[k].note, tx.description)
         THEN ScanExisting(existing, k + 1, tx, tolerance_days)
    ELSE IF DateMatches(existing[k].timestamp, tx.date, tolerance_days)
         THEN TRUE
    ELSE ScanExisting(existing, k + 1, tx, tolerance_days)

\* variant: the candidate's date is compared without the parse guard
is_duplicate_unguarded(existing, tx, tolerance_days) ==
    ScanExisting(existing, 1, tx, tolerance_days)

is_duplicate(existing, tx, tolerance_days) ==
    IF ~FromIsoOk(tx.date) THEN FALSE
    ELSE ScanExisting(existing, 1, tx, tolerance_days)

---------------------------------------------------------------------------
(* Sample texts                                                            *)

EmptyText == <<>>

NoCategory == <<>>

Uber == <<"U","b","e","r">>

UberRide == <<"U","B","E","R"," ","R","I","D","E">>

Lunch == <<"L","u","n","c","h">>

Cafe == <<"C","a","f","e">>

Food == <<"F","o","o","d">>

\* an imported Transaction (importers/base.py); note defaults to ""
Transaction(date, amount, description, source) ==
    [date |-> date, amount |-> amount, description |-> description,
     category |-> NoCategory, note |-> EmptyText, source |-> source]

\* a stored expense as get_expenses() returns it
Expense(amount, category, note, timestamp) ==
    [amount |-> amount, category |-> category, note |-> note,
     timestamp |-> timestamp]

\* all sequences over S of length at most n
SeqsUpTo(S, n) == UNION {[1..m -> S] : m \in 0..n}

---------------------------------------------------------------------------
(* The import command is not running in the function-level specifications  *)

NoArgs == [format |-> "none"]

NoStats == [auto_cat |-> 0, duplicates |-> 0, new |-> 0]

NoModel == [model |-> FALSE, is_trained |-> FALSE, classes |-> {}]

ImportIdle ==
    /\ store = <<>>
    /\ pc = "idle"
    /\ args = NoArgs
    /\ transactions = <<>>
    /\ existing_data = <<>>
    /\ new_txs = <<>>
    /\ stats = NoStats
    /\ idx = 0
    /\ ml = NoModel
    /\ outcome = "none"
    /\ store0 = <<>>
    /\ history = <<>>

Pending == [status |-> "pending", value |-> FALSE]

Returned(v) == [status |-> "returned", value |-> v]

---------------------------------------------------------------------------
(* DuplicateDetector.is_duplicate applied to bounded inputs                *)

MaxStored == 2

MaxToleranceDays == 1

\* the candidate's instant, and stored instants 36, 24 and 1 hours before
\* it, equal to it, and 1, 36 and 48 hours after it
DupCandidateDates == {IsoDate(48), OtherDate(48), JunkDate}

DupStoredDates ==
    {IsoDate(12), IsoDate(24), IsoDate(47), IsoDate(48), IsoDate(84),
     IsoDate(96), JunkDate}

DupStoredSamples ==
    {Expense(Num(1000), Food, n, ts) : n \in {Uber, Lunch}, ts \in DupStoredDates}
    \cup {Expense(Num(1000), Food, EmptyText, IsoDate(48)),
          Expense(Num(1000), Food, EmptyText, IsoDate(12)),
          Expense(Num(2000), Food, Uber, IsoDate(48)),
          Expense(NaN, Food, Uber, IsoDate(48))}

DupCandidates ==
    {Transaction(d, a, desc, "csv") :
        d \in DupCandidateDates,
        a \in {Num(1000), Num(1010), Num(1011), NaN},
        desc \in {Uber, UberRide, Cafe}}

InitDup ==
    /\ ImportIdle
    /\ \E tx \in DupCandidates, ex \in SeqsUpTo(DupStoredSamples, MaxStored),
          tol \in 0..MaxToleranceDays :
          call = [fn |-> "is_duplicate", transaction |-> tx, existing |-> ex,
                  tolerance_days |-> tol]
    /\ ret = Pending

CallIsDuplicate ==
    /\ call.fn = "is_duplicate"
    /\ ret.status = "pending"
    /\ ret' = Returned(is_duplicate(call.existing, call.transaction,
                                    call.tolerance_days))
    /\ UNCHANGED <<importVars, call>>

NextDup == CallIsDuplicate

SpecDup == InitDup /\ [][NextDup]_vars

\* The conditions of the detector as the specification words them
AmountWithinTolerance(a, b) ==
    ~a.nan /\ ~b.nan /\ Abs(a.v - b.v) <= AmountTolerance

DescriptionsOverlap(note, desc) ==
    Contains(Upper(note), Upper(desc)) \/ Contains(Upper(desc), Upper(note))

\* both dates parse and their absolute difference, in whole days, is at most tol
WithinWholeDays(e_timestamp, date, tol) ==
    /\ FromIsoOk(e_timestamp)
    /\ FromIsoOk(date)
    /\ Abs(e_timestamp.t - date.t) \div HoursPerDay <= tol

DupReturned == call.fn = "is_duplicate" /\ ret.status = "returned"

\* C3: is_duplicate returns true whenever some stored record is within 0.01
\* in amount, overlaps in description and lies inside the date window, and
\* returns false whenever every stored record differs by more than 0.01.
C3_AmountTolerance ==
    DupReturned =>
        LET tx == call.transaction
            ex == call.existing
        IN  /\ (\E k \in DOMAIN ex :
                    /\ AmountWithinTolerance(ex[k].amount, tx.amount)
                    /\ DescriptionsOverlap(ex[k].note, tx.description)
                    /\ WithinWholeDays(ex[k].timestamp, tx.date, call.tolerance_days))
               => ret.value = TRUE
            /\ (\A k \in DOMAIN ex :
                    ~ex[k].amount.nan /\ ~tx.amount.nan
                    /\ Abs(ex[k].amount.v - tx.amount.v) > AmountTolerance)
               => ret.value = FALSE

\* C4: with amount and description matching, the answer for one stored
\* record is exactly "absolute difference in whole days <= tolerance_days",
\* hence the same for a record an interval before or after the candidate.
C4_DateWindowSymmetric ==
    (/\ DupReturned
     /\ Len(call.existing) = 1
     /\ AmountWithinTolerance(call.existing[1].amount, call.transaction.amount)
     /\ DescriptionsOverlap(call.existing[1].note, call.transaction.description)
     /\ FromIsoOk(call.transaction.date))
    => ret.value = WithinWholeDays(call.existing[1].timestamp,
                                   call.transaction.date, call.tolerance_days)

\* C5: is_duplicate returns true if and only if one stored record satisfies
\* the amount, the description and the date condition together.
C5_AllThreeOnOneRecord ==
    DupReturned =>
        LET tx == call.transaction
            ex == call.existing
        IN  ret.value =
               (\E k \in DOMAIN ex :
                    /\ AmountWithinTolerance(ex[k].amount, tx.amount)
                    /\ DescriptionsOverlap(ex[k].note, tx.description)
                    /\ WithinWholeDays(ex[k].timestamp, tx.date, call.tolerance_days))

\* C6: a candidate whose own date does not parse is never a duplicate, and
\* the call returns normally, whatever is stored.
C6_UnparseableCandidate ==
    (call.fn = "is_duplicate" /\ ret.status # "pending"
        /\ ~FromIsoOk(call.transaction.date))
    => (ret.status = "returned" /\ ret.value = FALSE)

C6_Witness ==
    /\ DupReturned
    /\ call.transaction.date = JunkDate
    /\ \E k \in DOMAIN call.existing :
          /\ call.existing[k].amount = call.transaction.amount
          /\ call.existing[k].note = call.transaction.description
          /\ call.existing[k].timestamp = IsoDate(0 + 48)

---------------------------------------------------------------------------
(* categorization.py: RuleCategorizer                                      *)
(*                                                                         *)
(* Regular expressions are modelled on the fragment the rule files use:    *)
(* literal characters, top-level alternation "|", the classes \d and \D,   *)
(* and an unclosed "(" which re refuses to compile (re.error).             *)

CountChar(p, c) == Cardinality({k \in DOMAIN p : p[k] = c})

\* re.compile(p) raises re.error
RegexError(p) == CountChar(p, "(") # CountChar(p, ")")

\* the top-level alternatives of p, as <<first, last>> index pairs
AltBounds(p) ==
    LET bars == {0, Len(p) + 1} \cup {k \in DOMAIN p : p[k] = "|"}
    IN  {<<a + 1, b - 1>> : <<a, b>> \in
            {<<a, b>> \in bars \X bars :
                a < b /\ ~\E c \in bars : a < c /\ c < b}}

ClassMatches(cls, c) ==
    IF cls = "d" THEN c \in Digits
    ELSE IF cls = "D" THEN c \notin Digits
    ELSE c = cls

\* the pattern p[i..last] matches s from position j on
RECURSIVE MatchHere(_, _, _, _, _)
MatchHere(p, i, last, s, j) ==
    IF i > last THEN TRUE
    ELSE IF p[i] = "\\" /\ i < last
         THEN /\ j <= Len(s)
              /\ ClassMatches(p[i + 1], s[j])
              /\ MatchHere(p, i + 2, last, s, j + 1)
    ELSE /\ j <= Len(s)
         /\ s[j] = p[i]
         /\ MatchHere(p, i + 1, last, s, j + 1)

\* re.search(p, s) finds a match (p compiles)
RegexSearch(p, s) ==
    \E b \in AltBounds(p) : \E j \in 1..(Len(s) + 1) :
        MatchHere(p, b[1], b[2], s, j)

NoBound == [has |-> FALSE, v |-> 0]

Bound(v) == [has |-> TRUE, v |-> v]

Rule(pattern, regex, category, min_amount, max_amount) ==
    [pattern |-> pattern, regex |-> regex, category |-> category,
     min_amount |-> min_amount, max_amount |-> max_amount]

Raised == [status |-> "raised", value |-> <<>>]

\* the for loop over self.rules, from rule k on
RECURSIVE CategorizeFrom(_, _, _, _)
CategorizeFrom(rules, k, desc_upper, amount) ==
    IF k > Len(rules) THEN Returned(NoCategory)
    ELSE LET rule == rules[k]
             pattern == Upper(rule.pattern)
         IN  IF rule.min_amount.has /\ FLt(amount, Num(rule.min_amount.v))
                THEN CategorizeFrom(rules, k + 1, desc_upper, amount)
             ELSE IF rule.max_amount.has /\ FGt(amount, Num(rule.max_amount.v))
                THEN CategorizeFrom(rules, k + 1, desc_upper, amount)
             ELSE IF rule.regex
                THEN IF RegexError(pattern) THEN Raised
                     ELSE IF RegexSearch(pattern, desc_upper)
                          THEN Returned(rule.category)
                          ELSE CategorizeFrom(rules, k + 1, desc_upper, amount)
             ELSE IF Contains(desc_upper, pattern)
                THEN Returned(rule.category)
                ELSE CategorizeFrom(rules, k + 1, desc_upper, amount)

categorize(rules, description, amount) ==
    CategorizeFrom(rules, 1, Upper(description), amount)

\* the category names of the built-in rules
Dining == <<"D","i","n","i","n","g">>

Entertainment == <<"E","n","t","e","r","t","a","i","n","m","e","n","t">>

Groceries == <<"G","r","o","c","e","r","i","e","s">>

Shopping == <<"S","h","o","p","p","i","n","g">>

Transport == <<"T","r","a","n","s","p","o","r","t">>

Utilities == <<"U","t","i","l","i","t","i","e","s">>

\* self.rules when no rule file is given
DefaultRules ==
    <<Rule(<<"U","B","E","R","|","L","Y","F","T">>,
           TRUE, Transport, NoBound, NoBound),
      Rule(<<"S","A","F","E","W","A","Y","|","T","R","A","D","E","R"," ","J","O","E","|","W","H","O","L","E"," ","F","O","O","D","S">>,
           TRUE, Groceries, NoBound, NoBound),
      Rule(<<"N","E","T","F","L","I","X","|","S","P","O","T","I","F","Y","|","H","B","O","|","D","I","S","N","E","Y">>,
           TRUE, Entertainment, NoBound, NoBound),
      Rule(<<"A","M","A","Z","O","N","|","E","B","A","Y">>,
           TRUE, Shopping, NoBound, NoBound),
      Rule(<<"P","G","&","E","|","E","V","E","R","S","O","U","R","C","E","|","S","C","E">>,
           TRUE, Utilities, NoBound, NoBound),
      Rule(<<"S","T","A","R","B","U","C","K","S","|","C","O","F","F","E","E","|","C","A","F","E","|","P","E","E","T","'","S">>,
           TRUE, Dining, NoBound, NoBound),
      Rule(<<"R","E","S","T","A","U","R","A","N","T","|","D","I","N","E","R","|","P","I","Z","Z","A","|","B","U","R","G","E","R","|","S","U","S","H","I">>,
           TRUE, Dining, NoBound, NoBound)>>

---------------------------------------------------------------------------
(* RuleCategorizer.categorize applied to bounded inputs                    *)

MaxRules == 2

Rides == <<"R","i","d","e","s">>

Numbered == <<"N","u","m">>

Cafe7 == <<"C","a","f","e"," ","7">>

\* 20.00 and 50.00, in thousandths
RuleSamples ==
    {Rule(<<"u","b","e","r">>, FALSE, Transport, NoBound, NoBound),
     Rule(<<"U","B","E","R","|","L","Y","F","T">>, TRUE, Transport, NoBound, NoBound),
     Rule(<<"r","i","d","e">>, FALSE, Rides, Bound(20000), Bound(50000)),
     Rule(<<"c","a","f","e">>, FALSE, Dining, NoBound, NoBound),
     Rule(<<"(">>, TRUE, Shopping, NoBound, NoBound),
     Rule(<<"\\","d">>, TRUE, Numbered, NoBound, NoBound)}

CatDescriptions == {UberRide, Uber, Cafe7, Lunch, EmptyText}

CatAmounts == {Num(19990), Num(20000), Num(50000), Num(50010), NaN}

PendingCat == [status |-> "pending", value |-> NoCategory]

InitCat ==
    /\ ImportIdle
    /\ \E rules \in SeqsUpTo(RuleSamples, MaxRules), d \in CatDescriptions,
          a \in CatAmounts :
          call = [fn |-> "categorize", rules |-> rules, description |-> d,
                  amount |-> a]
    /\ ret = PendingCat

CallCategorize ==
    /\ call.fn = "categorize"
    /\ ret.status = "pending"
    /\ ret' = categorize(call.rules, call.description, call.amount)
    /\ UNCHANGED <<importVars, call>>

NextCat == CallCategorize

SpecCat == InitCat /\ [][NextCat]_vars

\* The rule conditions as the specification words them
BoundsContain(rule, amount) ==
    /\ ~amount.nan
    /\ rule.min_amount.has => amount.v >= rule.min_amount.v
    /\ rule.max_amount.has => amount.v <= rule.max_amount.v

\* a case-insensitive search for the pattern as it is written: letters are
\* compared without case, \d stays \d, a malformed pattern matches nothing
RECURSIVE MatchHereIgnoreCase(_, _, _, _, _)
MatchHereIgnoreCase(p, i, last, s, j) ==
    IF i > last THEN TRUE
    ELSE IF p[i] = "\\" /\ i < last
         THEN /\ j <= Len(s)
              /\ ClassMatches(p[i + 1], s[j])
              /\ MatchHereIgnoreCase(p, i + 2, last, s, j + 1)
    ELSE /\ j <= Len(s)
         /\ UpperChar(s[j]) = UpperChar(p[i])
         /\ MatchHereIgnoreCase(p, i + 1, last, s, j + 1)

PatternMatchesIgnoringCase(rule, description) ==
    IF rule.regex
    THEN /\ ~RegexError(rule.pattern)
         /\ \E b \in AltBounds(rule.pattern) :
               \E j \in 1..(Len(description) + 1) :
                  MatchHereIgnoreCase(rule.pattern, b[1], b[2], description, j)
    ELSE Contains(Upper(description), Upper(rule.pattern))

RuleApplies(rule, description, amount) ==
    BoundsContain(rule, amount) /\ PatternMatchesIgnoringCase(rule, description)

CatFinished == call.fn = "categorize" /\ ret.status # "pending"

\* C7: categorize returns the category of the first rule, in list order,
\* whose inclusive amount bounds contain the amount and whose pattern matches
\* the description case-insensitively, and none when no rule does.
C7_FirstMatchWins ==
    CatFinished =>
        LET rules == call.rules
            hits == {k \in DOMAIN rules :
                        RuleApplies(rules[k], call.description, call.amount)}
        IN  /\ ret.status = "returned"
            /\ IF hits = {} THEN ret.value = NoCategory
               ELSE ret.value =
                      rules[CHOOSE k \in hits : \A h \in hits : k <= h].category

\* C8: a rule with a malformed pattern never matches; categorize does not
\* raise and goes on to the rules after it.
C8_MalformedRuleSkipped ==
    (CatFinished /\ \E k \in DOMAIN call.rules :
                        call.rules[k].regex /\ RegexError(call.rules[k].pattern))
    => /\ ret.status = "returned"
       /\ LET good == SelectSeq(call.rules,
                        LAMBDA r : ~(r.regex /\ RegexError(r.pattern)))
          IN  ret.value = categorize(good, call.description, call.amount).value

---------------------------------------------------------------------------
(* importers: the table a file holds after pandas has read it              *)
(*                                                                         *)
(* A cell is a date string, a number, a number written with a currency     *)
(* symbol or grouping commas (a str), a missing value (an empty cell or an *)
(* N/A token: pandas yields the float nan) or other text.  The text of a   *)
(* date or number cell is not modelled; no sample maps description to one. *)

DateCell(d) == [kind |-> "date", d |-> d, v |-> 0, s |-> EmptyText]

NumCell(v) == [kind |-> "num", d |-> JunkDate, v |-> v, s |-> EmptyText]

MoneyCell(v) == [kind |-> "money", d |-> JunkDate, v |-> v, s |-> EmptyText]

NaCell == [kind |-> "na", d |-> JunkDate, v |-> 0, s |-> EmptyText]

TextCell(s) == [kind |-> "text", d |-> JunkDate, v |-> 0, s |-> s]

NanText == <<"n","a","n">>

Unknown == <<"U","n","k","n","o","w","n">>

\* str(cell)
CellStr(cell) == IF cell.kind = "na" THEN NanText ELSE cell.s

\* str(cell), read as a date string
CellDateStr(cell) == IF cell.kind = "date" THEN cell.d ELSE JunkDate

\* BaseImporter.normalize_date: dateutil parses ISO and other formats
NormalizeDateOk(date_str) == date_str.kind \in {"iso", "other"}

normalize_date(date_str) == IsoDate(date_str.t)

\* float(amount_val) returns normally; strip says whether "$" and "," were
\* removed from a str first
FloatOk(cell, strip) ==
    \/ cell.kind \in {"num", "na"}
    \/ cell.kind = "money" /\ strip

FloatOf(cell) == IF cell.kind = "na" THEN NaN ELSE Num(cell.v)

\* if kwargs.get('invert_negative', False) and amount < 0: amount = abs(amount)
ApplySign(amount, invert_negative) ==
    IF invert_negative /\ FLt(amount, Num(0)) THEN FAbs(amount) ELSE amount

---------------------------------------------------------------------------
(* importers/csv_importer.py                                               *)

DateAliases ==
    <<<<"d","a","t","e">>,
      <<"t","x","n"," ","d","a","t","e">>,
      <<"t","r","a","n","s","a","c","t","i","o","n"," ","d","a","t","e">>,
      <<"p","o","s","t","i","n","g"," ","d","a","t","e">>>>

AmountAliases ==
    <<<<"a","m","o","u","n","t">>,
      <<"a","m","t">>,
      <<"v","a","l","u","e">>,
      <<"t","r","a","n","s","a","c","t","i","o","n"," ","a","m","o","u","n","t">>>>

DescriptionAliases ==
    <<<<"d","e","s","c","r","i","p","t","i","o","n">>,
      <<"d","e","s","c">>,
      <<"p","a","y","e","e">>,
      <<"m","e","r","c","h","a","n","t">>,
      <<"n","a","r","r","a","t","i","v","e">>,
      <<"t","r","a","n","s","a","c","t","i","o","n"," ","d","e","s","c","r","i","p","t","i","o","n">>>>

RequiredCols == <<"date", "amount", "description">>

EmptyMapping == [f \in {} |-> EmptyText]

ColumnsLower(columns) == [k \in DOMAIN columns |-> Lower(columns[k])]

\* columns_lower.index(candidate): the first column with that lower-cased name
ColumnIndex(columns, candidate) ==
    CHOOSE k \in DOMAIN columns :
        /\ ColumnsLower(columns)[k] = candidate
        /\ \A j \in 1..(k - 1) : ColumnsLower(columns)[j] # candidate

\* the aliases of one field that name a column, by alias position
AliasHits(columns, aliases) ==
    {a \in DOMAIN aliases :
        \E k \in DOMAIN columns : ColumnsLower(columns)[k] = aliases[a]}

FirstAlias(columns, aliases) ==
    CHOOSE a \in AliasHits(columns, aliases) :
        \A b \in AliasHits(columns, aliases) : a <= b

AliasesOf(field) ==
    IF field = "date" THEN DateAliases
    ELSE IF field = "amount" THEN AmountAliases
    ELSE DescriptionAliases

\* variant: the first column, in column order, that carries any alias of the
\* field
auto_detect_columns_by_column(columns) ==
    [field \in {f \in {"date", "amount", "description"} :
                    AliasHits(columns, AliasesOf(f)) # {}} |->
        columns[CHOOSE k \in DOMAIN columns :
                  /\ \E a \in DOMAIN AliasesOf(field) :
                        ColumnsLower(columns)[k] = AliasesOf(field)[a]
                  /\ \A j \in 1..(k - 1) :
                        \A a \in DOMAIN AliasesOf(field) :
                           ColumnsLower(columns)[j] # AliasesOf(field)[a]]]

auto_detect_columns(columns) ==
    [field \in {f \in {"date", "amount", "description"} :
                    AliasHits(columns, AliasesOf(f)) # {}} |->
        columns[ColumnIndex(columns,
                    AliasesOf(field)[FirstAlias(columns, AliasesOf(field))])]]

\* row[name] raises KeyError
HasColumn(columns, name) == \E k \in DOMAIN columns : columns[k] = name

RowCell(columns, row, name) ==
    row[CHOOSE k \in DOMAIN columns : columns[k] = name]

\* the three row[self.mapping[field]] lookups succeed
LookupsOk(columns, mapping) ==
    \A f \in {"date", "amount", "description"} :
        f \in DOMAIN mapping /\ HasColumn(columns, mapping[f])

\* the body of the try block of the row loop completes
RowConverts(columns, row, mapping, strip) ==
    /\ LookupsOk(columns, mapping)
    /\ FloatOk(RowCell(columns, row, mapping["amount"]), strip)
    /\ NormalizeDateOk(CellDateStr(RowCell(columns, row, mapping["date"])))

RowTransaction(columns, row, mapping, invert_negative, source) ==
    Transaction(
        normalize_date(CellDateStr(RowCell(columns, row, mapping["date"]))),
        ApplySign(FloatOf(RowCell(columns, row, mapping["amount"])),
                  invert_negative),
        CellStr(RowCell(columns, row, mapping["description"])),
        source)

\* for _, row in df.iterrows(): ... except: continue
RECURSIVE ConvertRows(_, _, _, _, _, _, _)
ConvertRows(columns, rows, k, mapping, invert_negative, strip, source) ==
    IF k > Len(rows) THEN <<>>
    ELSE IF RowConverts(columns, rows[k], mapping, strip)
         THEN <<RowTransaction(columns, rows[k], mapping, invert_negative,
                               source)>>
              \o ConvertRows(columns, rows, k + 1, mapping, invert_negative,
                             strip, source)
    ELSE ConvertRows(columns, rows, k + 1, mapping, invert_negative, strip,
                     source)

ParseRaised(mapping) ==
    [status |-> "raised", value |-> <<>>, mapping |-> mapping]

ParseReturned(txs, mapping) ==
    [status |-> "returned", value |-> txs, mapping |-> mapping]

\* self.mapping after "if 'mapping' in kwargs: self.set_mapping(...)"
set_mapping(self_mapping, kw) ==
    IF kw.has_mapping THEN kw.mapping ELSE self_mapping

\* the "for field in required_cols" loop: auto-detection replaces the
\* mapping only while it is empty
CsvResolve(mapping, columns) ==
    IF DOMAIN mapping = {} THEN auto_detect_columns(columns) ELSE mapping

CSVImporter_parse(self_mapping, file, kw) ==
    IF ~file.readable THEN ParseRaised(self_mapping)
    ELSE LET mapping == CsvResolve(set_mapping(self_mapping, kw), file.columns)
         IN  IF DOMAIN mapping = {} THEN ParseRaised(mapping)
             ELSE ParseReturned(
                    ConvertRows(file.columns, file.rows, 1, mapping,
                                kw.invert_negative, TRUE, "csv"),
                    mapping)

---------------------------------------------------------------------------
(* importers/excel_importer.py                                             *)

ExcelImporter_parse(self_mapping, file, kw) ==
    IF ~file.readable THEN ParseRaised(self_mapping)
    ELSE LET given == set_mapping(self_mapping, kw)
             mapping == IF DOMAIN given = {}
                        THEN auto_detect_columns(file.columns) ELSE given
         IN  ParseReturned(
                ConvertRows(file.columns, file.rows, 1, mapping,
                            kw.invert_negative, FALSE, "xlsx"),
                mapping)

---------------------------------------------------------------------------
(* importers/ofx_importer.py                                               *)
(*                                                                         *)
(* What OfxParser.parse hands over: it raises on a file it cannot read and *)
(* on a record it cannot convert; a record it delivers carries a date and  *)
(* an amount, or None where the source had none.                           *)

OfxRecord(convertible, date, amount, payee, name, memo) ==
    [convertible |-> convertible, date |-> date, amount |-> amount,
     payee |-> payee, name |-> name, memo |-> memo]

Some(v) == [has |-> TRUE, v |-> v]

None == [has |-> FALSE, v |-> 0]

\* OfxParser.parse(f) raises
OfxLibraryRaises(file) ==
    \/ ~file.readable
    \/ \E k \in DOMAIN file.records : ~file.records[k].convertible

\* tx.payee or tx.name or tx.memo or "Unknown"
OfxDescription(tx) ==
    IF tx.payee # EmptyText THEN tx.payee
    ELSE IF tx.name # EmptyText THEN tx.name
    ELSE IF tx.memo # EmptyText THEN tx.memo
    ELSE Unknown

\* tx.date.isoformat() or float(tx.amount) raises on None
OfxRecordRaises(tx) == ~tx.date.has \/ ~tx.amount.has

OfxTransaction(tx, invert_negative) ==
    Transaction(IsoDate(tx.date.v),
                ApplySign(Num(tx.amount.v), invert_negative),
                OfxDescription(tx), "ofx")

\* variant: the statement's transactions are read without the test for a
\* missing account, statement or transaction list
OFXImporter_parse_unchecked(file, kw) ==
    IF OfxLibraryRaises(file) THEN ParseRaised(EmptyMapping)
    ELSE IF file.account # "ok" THEN ParseRaised(EmptyMapping)
    ELSE IF \E k \in DOMAIN file.records : OfxRecordRaises(file.records[k])
         THEN ParseRaised(EmptyMapping)
    ELSE ParseReturned(
            [k \in DOMAIN file.records |->
                OfxTransaction(file.records[k], kw.invert_negative)],
            EmptyMapping)

OFXImporter_parse(file, kw) ==
    IF OfxLibraryRaises(file) THEN ParseRaised(EmptyMapping)
    ELSE IF file.account # "ok" \/ file.records = <<>>
         THEN ParseReturned(<<>>, EmptyMapping)
    ELSE IF \E k \in DOMAIN file.records : OfxRecordRaises(file.records[k])
         THEN ParseRaised(EmptyMapping)
    ELSE ParseReturned(
            [k \in DOMAIN file.records |->
                OfxTransaction(file.records[k], kw.invert_negative)],
            EmptyMapping)

---------------------------------------------------------------------------
(* The parsers applied to bounded files                                    *)

MaxRows == 2

ColDate == <<"D","a","t","e">>

ColAmount == <<"A","m","o","u","n","t">>

ColDescription == <<"D","e","s","c","r","i","p","t","i","o","n">>

ColMemo == <<"M","e","m","o">>

StdColumns == <<ColDate, ColAmount, ColDescription>>

AliasColumns == <<<<"P","o","s","t","i","n","g"," ","D","a","t","e">>, <<"A","M","T">>, <<"P","a","y","e","e">>>>

NoDescColumns == <<ColDate, ColAmount, ColMemo>>

UnknownColumns == <<<<"W","h","e","n">>, <<"D","e","b","i","t">>, ColMemo>>

ColumnSamples == {StdColumns, AliasColumns, NoDescColumns, UnknownColumns}

\* -42.50, 12.00, 5.00 and 1,000.50 in thousandths
RowSamples ==
    {<<DateCell(IsoDate(36)), NumCell(-42500), TextCell(UberRide)>>,
     <<DateCell(OtherDate(48)), NumCell(12000), TextCell(Lunch)>>,
     <<DateCell(JunkDate), NumCell(5000), TextCell(Cafe)>>,
     <<DateCell(IsoDate(48)), MoneyCell(1000500), TextCell(Lunch)>>,
     <<DateCell(IsoDate(48)), NaCell, TextCell(Lunch)>>,
     <<DateCell(IsoDate(48)), TextCell(Cafe), TextCell(Cafe)>>}

FullMapping ==
    [f \in {"date", "amount", "description"} |->
        IF f = "date" THEN ColDate
        ELSE IF f = "amount" THEN ColAmount ELSE ColDescription]

PartialMapping ==
    [f \in {"date", "amount"} |-> IF f = "date" THEN ColDate ELSE ColAmount]

MemoMapping ==
    [f \in {"date", "amount", "description"} |->
        IF f = "date" THEN ColDate
        ELSE IF f = "amount" THEN ColAmount ELSE ColMemo]

MappingSamples == {EmptyMapping, FullMapping, PartialMapping, MemoMapping}

TableFile(format, readable, columns, rows) ==
    [format |-> format, readable |-> readable, columns |-> columns,
     rows |-> rows, account |-> "none", records |-> <<>>]

OfxFile(readable, account, records) ==
    [format |-> "ofx", readable |-> readable, columns |-> <<>>,
     rows |-> <<>>, account |-> account, records |-> records]

TableFiles ==
    {TableFile(f, TRUE, c, r) :
        f \in {"csv", "xlsx"}, c \in ColumnSamples,
        r \in SeqsUpTo(RowSamples, MaxRows)}
    \cup {TableFile(f, FALSE, <<>>, <<>>) : f \in {"csv", "xlsx"}}

OfxRecordSamples ==
    {OfxRecord(TRUE, Some(36), Some(-42500), UberRide, EmptyText, EmptyText),
     OfxRecord(TRUE, Some(48), Some(12000), EmptyText, EmptyText, Lunch),
     OfxRecord(TRUE, Some(48), Some(5000), EmptyText, EmptyText, EmptyText),
     OfxRecord(FALSE, None, None, Cafe, EmptyText, EmptyText),
     OfxRecord(TRUE, None, Some(5000), Cafe, EmptyText, EmptyText),
     OfxRecord(TRUE, Some(48), None, Cafe, EmptyText, EmptyText)}

OfxFiles ==
    {OfxFile(TRUE, "ok", r) : r \in SeqsUpTo(OfxRecordSamples, MaxRows)}
    \cup {OfxFile(TRUE, a, <<>>) : a \in {"none", "nostatement"}}
    \cup {OfxFile(FALSE, "none", <<>>)}

ParseKwargs ==
    {[has_mapping |-> TRUE, mapping |-> m, invert_negative |-> i] :
        m \in MappingSamples, i \in BOOLEAN}
    \cup {[has_mapping |-> FALSE, mapping |-> EmptyMapping,
           invert_negative |-> i] : i \in BOOLEAN}

PendingParse == [status |-> "pending", value |-> <<>>, mapping |-> EmptyMapping]

InitParse ==
    /\ ImportIdle
    /\ \E file \in TableFiles \cup OfxFiles, kw \in ParseKwargs :
          call = [fn |-> "parse", file |-> file, kw |-> kw,
                  self_mapping |-> EmptyMapping]
    /\ ret = PendingParse

CallCsvParse ==
    /\ call.fn = "parse" /\ call.file.format = "csv"
    /\ ret.status = "pending"
    /\ ret' = CSVImporter_parse(call.self_mapping, call.file, call.kw)
    /\ UNCHANGED <<importVars, call>>

CallExcelParse ==
    /\ call.fn = "parse" /\ call.file.format = "xlsx"
    /\ ret.status = "pending"
    /\ ret' = ExcelImporter_parse(call.self_mapping, call.file, call.kw)
    /\ UNCHANGED <<importVars, call>>

CallOfxParse ==
    /\ call.fn = "parse" /\ call.file.format = "ofx"
    /\ ret.status = "pending"
    /\ ret' = OFXImporter_parse(call.file, call.kw)
    /\ UNCHANGED <<importVars, call>>

NextParse == CallCsvParse \/ CallExcelParse \/ CallOfxParse

SpecParse == InitParse /\ [][NextParse]_vars

ParseFinished == call.fn = "parse" /\ ret.status # "pending"

IsTable(file) == file.format \in {"csv", "xlsx"}

\* the mapping in force: the explicit one when it is not empty, else the
\* auto-detected one
MappingInForce ==
    LET given == IF call.kw.has_mapping THEN call.kw.mapping
                 ELSE call.self_mapping
    IN  IF DOMAIN given = {} THEN auto_detect_columns(call.file.columns)
        ELSE given

\* C9: when the mapping in force lacks date, amount or description, or names
\* a column the file does not have, parse fails instead of returning.
C9_PartialMappingRejected ==
    (/\ ParseFinished
     /\ IsTable(call.file)
     /\ call.file.readable
     /\ ~LookupsOk(call.file.columns, MappingInForce))
    => ret.status = "raised"

\* a record whose date or amount cannot be normalized
BadRecord(file, k) ==
    IF IsTable(file)
    THEN \/ ~NormalizeDateOk(CellDateStr(
                RowCell(file.columns, file.rows[k], MappingInForce["date"])))
         \/ RowCell(file.columns, file.rows[k],
                    MappingInForce["amount"]).kind = "text"
    ELSE \/ ~file.records[k].convertible
         \/ ~file.records[k].date.has
         \/ ~file.records[k].amount.has

\* a record with a parseable date and a plain numeric amount
PlainRecord(file, k) ==
    IF IsTable(file)
    THEN /\ NormalizeDateOk(CellDateStr(
                RowCell(file.columns, file.rows[k], MappingInForce["date"])))
         /\ RowCell(file.columns, file.rows[k],
                    MappingInForce["amount"]).kind = "num"
    ELSE /\ file.records[k].convertible
         /\ file.records[k].date.has
         /\ file.records[k].amount.has

RecordIndices(file) ==
    IF IsTable(file) THEN DOMAIN file.rows ELSE DOMAIN file.records

\* C10: for all three parsers a record whose date or amount cannot be
\* normalized is dropped, the remaining records are returned, and parse
\* does not raise, wherever the bad record stands in the file.
C10_BadRecordDropped ==
    (/\ ParseFinished
     /\ call.file.readable
     /\ IsTable(call.file) => LookupsOk(call.file.columns, MappingInForce)
     /\ ~IsTable(call.file) => call.file.account = "ok")
    => LET file == call.file
           plain == {k \in RecordIndices(file) : PlainRecord(file, k)}
           bad == {k \in RecordIndices(file) : BadRecord(file, k)}
       IN  /\ ret.status = "returned"
           /\ Len(ret.value) >= Cardinality(plain)
           /\ Len(ret.value) <= Cardinality(RecordIndices(file) \ bad)

---------------------------------------------------------------------------
(* categorization.py: MLCategorizer                                        *)

MinTrain == 10

\* desc = tx.get('note') or tx.get('description', ''); if desc and cat
Usable(tx) == tx.note # EmptyText /\ tx.category # NoCategory

UsableCount(txs) == Cardinality({k \in DOMAIN txs : Usable(txs[k])})

Classes(txs) == {txs[k].category : k \in {j \in DOMAIN txs : Usable(txs[j])}}

\* variant: the minimum is taken over all records, usable or not
train_counting_all(m, txs, has_sklearn, fit_ok) ==
    IF ~has_sklearn THEN m
    ELSE IF Len(txs) < MinTrain THEN m
    ELSE IF fit_ok /\ Cardinality(Classes(txs)) >= 2
         THEN [model |-> TRUE, is_trained |-> TRUE, classes |-> Classes(txs)]
    ELSE [model |-> TRUE, is_trained |-> FALSE, classes |-> {}]

\* MLCategorizer.train on the instance m; has_sklearn is HAS_sklearn, fit_ok
\* says whether the vectorizer finds a vocabulary; LogisticRegression.fit
\* raises on fewer than two classes
train(m, txs, has_sklearn, fit_ok) ==
    IF ~has_sklearn THEN m
    ELSE IF UsableCount(txs) < MinTrain THEN m
    ELSE IF fit_ok /\ Cardinality(Classes(txs)) >= 2
         THEN [model |-> TRUE, is_trained |-> TRUE, classes |-> Classes(txs)]
    ELSE [model |-> TRUE, is_trained |-> FALSE, classes |-> {}]

\* MLCategorizer.predict: the values it can return; a fitted model answers
\* with one of its classes, and an exception inside it gives None
PredictOutcomes(m) ==
    IF ~m.is_trained \/ ~m.model THEN {NoCategory}
    ELSE m.classes \cup {NoCategory}

---------------------------------------------------------------------------
(* datastore.py                                                            *)

\* JSONDataStore.add_expense / SQLiteDataStore.add_expense: the entry
\* appended; datetime.fromisoformat(timestamp) must succeed first
AddExpenseOk(timestamp) == FromIsoOk(timestamp)

\* variant: an entry equal to a stored one is not stored again
add_expense_unique(data, amount, category, note, timestamp) ==
    IF \E k \in DOMAIN data :
          data[k] = Expense(amount, Upper(category), note, timestamp)
    THEN data
    ELSE Append(data, Expense(amount, Upper(category), note, timestamp))

\* variant: the display form of the date is kept as the timestamp
add_expense_display_date(data, amount, category, note, timestamp) ==
    Append(data, Expense(amount, Upper(category), note,
                         OtherDate(timestamp.t)))

add_expense(data, amount, category, note, timestamp) ==
    Append(data, Expense(amount, Upper(category), note, timestamp))

---------------------------------------------------------------------------
(* main.py: import_file                                                    *)

Uncategorized == <<"U","n","c","a","t","e","g","o","r","i","z","e","d">>

General == <<"G","e","n","e","r","a","l">>

\* variant: the suffix is compared as written
FormatOfSuffixAsWritten(suffix) ==
    IF suffix = <<".","c","s","v">> THEN "csv"
    ELSE IF suffix \in {<<".","x","l","s","x">>, <<".","x","l","s">>} THEN "xlsx"
    ELSE IF suffix = <<".","o","f","x">> THEN "ofx"
    ELSE ""

\* path.suffix.lower() -> format
FormatOfSuffix(suffix) ==
    LET sfx == Lower(suffix)
    IN  IF sfx = <<".","c","s","v">> THEN "csv"
        ELSE IF sfx \in {<<".","x","l","s","x">>, <<".","x","l","s">>} THEN "xlsx"
        ELSE IF sfx = <<".","o","f","x">> THEN "ofx"
        ELSE ""

DetectFormat(a) == IF a.format # "" THEN a.format ELSE FormatOfSuffix(a.suffix)

SupportedFormats == {"csv", "xlsx", "ofx"}

\* importer.parse(str(path), mapping=mapping_dict, invert_negative=...) on a
\* fresh importer; a reader given a file of another format fails to read it
ImporterParse(format, a) ==
    LET kw == [has_mapping |-> TRUE, mapping |-> a.mapping,
               invert_negative |-> a.invert_negative]
        file == IF a.file.format = format THEN a.file
                ELSE [a.file EXCEPT !.readable = FALSE]
    IN  IF format = "csv" THEN CSVImporter_parse(EmptyMapping, file, kw)
        ELSE IF format = "xlsx" THEN ExcelImporter_parse(EmptyMapping, file, kw)
        ELSE OFXImporter_parse(file, kw)

\* variant: the preview branch does not return
AfterStatsIgnoringPreview(a) ==
    IF a.interactive THEN "review" ELSE "confirm"

\* where the command goes after printing the statistics
AfterStats(a) ==
    IF a.preview THEN "done"
    ELSE IF a.interactive THEN "review" ELSE "confirm"

\* variant: every new transaction is put to the operator
EveryTransactionIn(txs) == DOMAIN txs

\* uncategorized = [t for t in new_txs if not t.category]
UncategorizedIn(txs) == {k \in DOMAIN txs : txs[k].category = NoCategory}

\* path.exists(), format detection, importer selection
ImportStart ==
    /\ pc = "start"
    /\ IF ~args.exists
          THEN pc' = "done" /\ outcome' = "file_not_found"
       ELSE IF DetectFormat(args) = ""
          THEN pc' = "done" /\ outcome' = "format_not_detected"
       ELSE IF DetectFormat(args) \notin SupportedFormats
          THEN pc' = "done" /\ outcome' = "unsupported_format"
       ELSE pc' = "parse" /\ UNCHANGED outcome
    /\ UNCHANGED <<store, args, history, transactions, existing_data,
                   new_txs, stats,
                   idx, ml, store0, call, ret>>

\* transactions = importer.parse(...); "Import failed" / "No transactions found"
ImportParse ==
    /\ pc = "parse"
    /\ LET r == ImporterParse(DetectFormat(args), args)
       IN  IF r.status = "raised"
              THEN /\ pc' = "done" /\ outcome' = "import_failed"
                   /\ UNCHANGED transactions
           ELSE IF r.value = <<>>
              THEN /\ pc' = "done" /\ outcome' = "no_transactions"
                   /\ UNCHANGED transactions
           ELSE /\ pc' = "snapshot" /\ UNCHANGED outcome
                /\ transactions' = r.value
    /\ UNCHANGED <<store, args, history, existing_data, new_txs, stats, idx, ml,
                   store0, call, ret>>

\* existing_data = store.get_expenses(); the detector and the categorizers
\* are built and the statistical one is trained
ImportSnapshot ==
    /\ pc = "snapshot"
    /\ existing_data' = store
    /\ \E has_sklearn \in BOOLEAN, fit_ok \in BOOLEAN :
          ml' = train(NoModel, store, has_sklearn, fit_ok)
    /\ new_txs' = <<>>
    /\ stats' = [auto_cat |-> 0, duplicates |-> 0, new |-> 0]
    /\ idx' = 1
    /\ pc' = "process"
    /\ UNCHANGED <<store, args, history, transactions, outcome, store0, call,
                   ret>>

\* variant: the transactions accepted so far are compared against as well
DetectorRecordsWithAccepted(existing, accepted) ==
    existing \o [k \in DOMAIN accepted |->
                    Expense(accepted[k].amount, accepted[k].category,
                            accepted[k].description, accepted[k].date)]

\* deduper = DuplicateDetector(existing_data): self.existing is the list
\* read before the loop, whatever has been accepted since
DetectorRecords(existing, accepted) == existing

\* variant: the statistical prediction is taken whenever there is one
CategorizedPreferringPrediction(rule_cat, m) ==
    {IF predicted # NoCategory THEN predicted ELSE rule_cat :
        predicted \in PredictOutcomes(m)}

\* cat = rule_categorizer.categorize(...); if not cat: cat =
\* ml_categorizer.predict(...): the values cat can end with
Categorized(rule_cat, m) ==
    IF rule_cat # NoCategory THEN {rule_cat} ELSE PredictOutcomes(m)

\* the number of ml_categorizer.predict calls one transaction causes
PredictCalls(rule_cat) == IF rule_cat # NoCategory THEN 0 ELSE 1

\* variant: the duplicate test is applied whatever skip_duplicates says
ImportProcessAlwaysSkipping ==
    /\ pc = "process"
    /\ idx <= Len(transactions)
    /\ LET tx == transactions[idx]
           rule == categorize(DefaultRules, tx.description, tx.amount)
       IN  IF is_duplicate(DetectorRecords(existing_data, new_txs), tx,
                             DefaultToleranceDays)
           THEN /\ stats' = [stats EXCEPT !.duplicates = @ + 1]
                /\ idx' = idx + 1
                /\ UNCHANGED <<new_txs, pc, outcome, call>>
           ELSE IF rule.status = "raised"
           THEN /\ pc' = "crashed" /\ outcome' = "exception"
                /\ UNCHANGED <<new_txs, stats, idx, call>>
           ELSE /\ \E cat \in Categorized(rule.value, ml) :
                      /\ new_txs' = Append(new_txs,
                                           [tx EXCEPT !.category = cat])
                      /\ stats' = [stats EXCEPT
                                     !.auto_cat = IF cat # NoCategory
                                                  THEN @ + 1 ELSE @,
                                     !.new = @ + 1]
                /\ call' = [call EXCEPT
                              !.predict_calls =
                                 @ + PredictCalls(rule.value)]
                /\ idx' = idx + 1
                /\ UNCHANGED <<pc, outcome>>
    /\ UNCHANGED <<store, args, history, transactions, existing_data, ml,
                   store0, ret>>

\* one iteration of "for tx in transactions"
ImportProcess ==
    /\ pc = "process"
    /\ idx <= Len(transactions)
    /\ LET tx == transactions[idx]
           rule == categorize(DefaultRules, tx.description, tx.amount)
       IN  IF args.skip_duplicates
              /\ is_duplicate(DetectorRecords(existing_data, new_txs), tx,
                             DefaultToleranceDays)
           THEN /\ stats' = [stats EXCEPT !.duplicates = @ + 1]
                /\ idx' = idx + 1
                /\ UNCHANGED <<new_txs, pc, outcome, call>>
           ELSE IF rule.status = "raised"
           THEN /\ pc' = "crashed" /\ outcome' = "exception"
                /\ UNCHANGED <<new_txs, stats, idx, call>>
           ELSE /\ \E cat \in Categorized(rule.value, ml) :
                      /\ new_txs' = Append(new_txs,
                                           [tx EXCEPT !.category = cat])
                      /\ stats' = [stats EXCEPT
                                     !.auto_cat = IF cat # NoCategory
                                                  THEN @ + 1 ELSE @,
                                     !.new = @ + 1]
                /\ call' = [call EXCEPT
                              !.predict_calls =
                                 @ + PredictCalls(rule.value)]
                /\ idx' = idx + 1
                /\ UNCHANGED <<pc, outcome>>
    /\ UNCHANGED <<store, args, history, transactions, existing_data, ml,
                   store0, ret>>

\* the statistics line, then the preview table or the next step
ImportAfterLoop ==
    /\ pc = "process"
    /\ idx > Len(transactions)
    /\ pc' = AfterStats(args)
    /\ outcome' = IF AfterStats(args) = "done" THEN "previewed" ELSE outcome
    /\ UNCHANGED <<store, args, history, transactions, existing_data,
                   new_txs, stats,
                   idx, ml, store0, call, ret>>

\* "Review n uncategorized transactions?"
ImportReviewAsk ==
    /\ pc = "review"
    /\ IF UncategorizedIn(new_txs) = {} THEN pc' = "confirm"
       ELSE \E yes \in BOOLEAN : pc' = IF yes THEN "prompt" ELSE "confirm"
    /\ UNCHANGED <<store, args, history, transactions, existing_data,
                   new_txs, stats,
                   idx, ml, outcome, store0, call, ret>>

\* what the operator can type at a prompt: nothing, or a category
PromptInputs == {EmptyText, Food}

\* typer.prompt(text, default=d): the default stands in for an empty input
Prompt(input, default) == IF input = EmptyText THEN default ELSE input

\* one typer.prompt of the review loop
ImportReviewPrompt ==
    /\ pc = "prompt"
    /\ IF UncategorizedIn(new_txs) = {}
       THEN pc' = "confirm" /\ UNCHANGED <<new_txs, call>>
       ELSE LET k == CHOOSE j \in UncategorizedIn(new_txs) :
                        \A h \in UncategorizedIn(new_txs) : j <= h
            IN  \E input \in PromptInputs :
                   /\ new_txs' = [new_txs EXCEPT
                                    ![k].category = Prompt(input, General)]
                   /\ call' = [call EXCEPT !.answer = input]
                   /\ UNCHANGED pc
    /\ UNCHANGED <<store, args, history, transactions, existing_data, stats,
                   idx, ml,
                   outcome, store0, ret>>

\* "Import n transactions?"
ImportConfirm ==
    /\ pc = "confirm"
    /\ \E yes \in BOOLEAN :
          IF yes THEN pc' = "save" /\ idx' = 1 /\ UNCHANGED outcome
          ELSE pc' = "done" /\ outcome' = "cancelled" /\ UNCHANGED idx
    /\ UNCHANGED <<store, args, history, transactions, existing_data,
                   new_txs, stats,
                   ml, store0, call, ret>>

\* one store.add_expense of the save loop
ImportSave ==
    /\ pc = "save"
    /\ idx <= Len(new_txs)
    /\ LET tx == new_txs[idx]
       IN  IF AddExpenseOk(tx.date)
           THEN /\ store' = add_expense(store, tx.amount,
                               IF tx.category # NoCategory THEN tx.category
                               ELSE Uncategorized,
                               tx.description, tx.date)
                /\ idx' = idx + 1
                /\ UNCHANGED <<pc, outcome>>
           ELSE /\ pc' = "crashed" /\ outcome' = "exception"
                /\ UNCHANGED <<store, idx>>
    /\ UNCHANGED <<args, history, transactions, existing_data, new_txs,
                   stats, ml,
                   store0, call, ret>>

\* "Successfully imported n transactions!"
ImportFinish ==
    /\ pc = "save"
    /\ idx > Len(new_txs)
    /\ pc' = "done"
    /\ outcome' = "imported"
    /\ UNCHANGED <<store, args, history, transactions, existing_data,
                   new_txs, stats,
                   idx, ml, store0, call, ret>>

\* add_expense fails to write (the data file or database cannot be
\* written): the exception ends the command
StorageFailure ==
    /\ pc = "save"
    /\ idx <= Len(new_txs)
    /\ pc' = "crashed"
    /\ outcome' = "exception"
    /\ UNCHANGED <<store, args, history, transactions, existing_data,
                   new_txs, stats,
                   idx, ml, store0, call, ret>>

\* the process is terminated between two steps
Terminate ==
    /\ pc \notin {"idle", "done", "crashed", "killed"}
    /\ pc' = "killed"
    /\ outcome' = "terminated"
    /\ UNCHANGED <<store, args, history, transactions, existing_data,
                   new_txs, stats,
                   idx, ml, store0, call, ret>>

---------------------------------------------------------------------------
(* The import command on bounded files, options and stores                 *)

MaxImportRows == 2

ImportRowSamples ==
    {<<DateCell(IsoDate(36)), NumCell(-42500), TextCell(UberRide)>>,
     <<DateCell(OtherDate(48)), NumCell(12000), TextCell(Lunch)>>,
     <<DateCell(JunkDate), NumCell(5000), TextCell(Cafe)>>}

ImportOfxSamples ==
    {OfxRecord(TRUE, Some(36), Some(-42500), UberRide, EmptyText, EmptyText),
     OfxRecord(TRUE, Some(48), Some(12000), EmptyText, EmptyText, Lunch),
     OfxRecord(TRUE, None, Some(5000), Cafe, EmptyText, EmptyText)}

ImportFiles ==
    {TableFile(f, TRUE, StdColumns, r) :
        f \in {"csv", "xlsx"}, r \in SeqsUpTo(ImportRowSamples, MaxImportRows)}
    \cup {OfxFile(TRUE, "ok", r) :
            r \in SeqsUpTo(ImportOfxSamples, MaxImportRows)}
    \cup {OfxFile(TRUE, a, <<>>) : a \in {"none", "nostatement"}}

SuffixOf(format) ==
    IF format = "csv" THEN <<".","c","s","v">>
    ELSE IF format = "xlsx" THEN <<".","x","l","s","x">>
    ELSE <<".","o","f","x">>

OneCsv ==
    TableFile("csv", TRUE, StdColumns,
              <<<<DateCell(IsoDate(36)), NumCell(-42500), TextCell(UberRide)>>>>)

\* a file path, the --format and --mapping options and the file behind the
\* path: every sample file under its own suffix, and one file under the
\* other suffixes, formats and mappings
ImportSources ==
    {[exists |-> TRUE, format |-> "", suffix |-> SuffixOf(f.format),
      mapping |-> EmptyMapping, file |-> f] : f \in ImportFiles}
    \cup {[exists |-> e, format |-> fmt, suffix |-> sfx, mapping |-> m,
           file |-> OneCsv] :
            e \in BOOLEAN, fmt \in {"", "csv", "ofx", "pdf"},
            sfx \in {<<".","C","S","V">>, <<".","x","l","s">>, <<".","t","x","t">>},
            m \in {EmptyMapping, PartialMapping}}

StoredUber == Expense(Num(42500), Upper(Transport), Uber, IsoDate(36))

StoredLunch == Expense(Num(12000), Upper(Food), Lunch, IsoDate(0))

\* enough labelled expenses to train on
TrainingStore ==
    [k \in 1..MinTrain |-> IF k % 2 = 0 THEN StoredUber ELSE StoredLunch]

ImportStores ==
    {<<>>, <<StoredUber>>, <<StoredLunch>>, <<StoredLunch, StoredUber>>,
     TrainingStore}

InitImport ==
    /\ store \in ImportStores
    /\ store0 = store
    /\ history = <<>>
    /\ pc = "start"
    /\ \E src \in ImportSources, preview \in BOOLEAN, interactive \in BOOLEAN,
          skip_duplicates \in BOOLEAN, invert_negative \in BOOLEAN :
          args = [exists |-> src.exists, format |-> src.format,
                  suffix |-> src.suffix, mapping |-> src.mapping,
                  file |-> src.file, preview |-> preview,
                  interactive |-> interactive,
                  skip_duplicates |-> skip_duplicates,
                  invert_negative |-> invert_negative]
    /\ transactions = <<>>
    /\ existing_data = <<>>
    /\ new_txs = <<>>
    /\ stats = NoStats
    /\ idx = 0
    /\ ml = NoModel
    /\ outcome = "none"
    /\ call = [fn |-> "import_file", predict_calls |-> 0,
               answer |-> EmptyText, run |-> 1, imported |-> 0]
    /\ ret = Pending

NextImport ==
    \/ ImportStart
    \/ ImportParse
    \/ ImportSnapshot
    \/ ImportProcess
    \/ ImportAfterLoop
    \/ ImportReviewAsk
    \/ ImportReviewPrompt
    \/ ImportConfirm
    \/ ImportSave
    \/ ImportFinish
    \/ StorageFailure
    \/ Terminate

SpecImport == InitImport /\ [][NextImport]_vars

\* C1: with preview on, or the final confirmation declined, the expense
\* list at the end of the run is the one the run started with, for every
\* file and every combination of the other options.
C1_PreviewOrDeclineKeepsStore ==
    (pc \in {"done", "crashed", "killed"}
        /\ (args.preview \/ outcome = "cancelled"))
    => store = store0

C1_Witness ==
    /\ pc = "done"
    /\ outcome = "cancelled"
    /\ Len(new_txs) = MaxImportRows
    /\ args.interactive
    /\ stats.auto_cat = 1

\* the expenses the run has added to the store
AddedByRun == SubSeq(store, Len(store0) + 1, Len(store))

\* C2: whenever the run has ended, also by termination or a storage failure
\* at any step, the store holds none of the run's new transactions or all
\* of them.
C2_NothingOrEverything ==
    pc \in {"done", "crashed", "killed"}
    => \/ store = store0
       \/ Len(AddedByRun) = Len(new_txs)

---------------------------------------------------------------------------
(* Further properties of the parsers                                       *)

\* C11: every transaction a parser returns has a finite numeric amount; a
\* row whose amount cell is empty, missing or a non-numeric token is dropped
\* and never returned with a not-a-number amount.
C11_AmountsFinite ==
    (ParseFinished /\ ret.status = "returned")
    => \A k \in DOMAIN ret.value : ~ret.value[k].amount.nan

\* (date, amount, description) of each transaction, without the source tag
Untagged(txs) ==
    [k \in DOMAIN txs |->
        [date |-> txs[k].date, amount |-> txs[k].amount,
         description |-> txs[k].description]]

\* what the parser of the other table format answers on the same call
OtherTableParser ==
    IF call.file.format = "csv"
    THEN ExcelImporter_parse(call.self_mapping, call.file, call.kw)
    ELSE CSVImporter_parse(call.self_mapping, call.file, call.kw)

\* C12: on the same table, mapping and options the spreadsheet parser and
\* the delimited-text parser fail in the same cases and return the same
\* sequence of (date, amount, description).
C12_TableParsersAgree ==
    (ParseFinished /\ IsTable(call.file))
    => /\ ret.status = OtherTableParser.status
       /\ Untagged(ret.value) = Untagged(OtherTableParser.value)

---------------------------------------------------------------------------
(* Column resolution on every ordering of bounded column names, and on a   *)
(* second parse by the same importer                                       *)

ColDateUpper == <<"D","A","T","E">>

ColPostingDate == <<"P","o","s","t","i","n","g"," ","D","a","t","e">>

ColAmt == <<"A","M","T">>

ColumnNames ==
    {ColDate, ColDateUpper, ColPostingDate, ColAmount, ColAmt,
     ColDescription, ColMemo}

MaxColumns == 3

\* the header rows of MaxColumns distinct column names
HeaderSamples ==
    {c \in [1..MaxColumns -> ColumnNames] :
        \A i, j \in 1..MaxColumns : i # j => c[i] # c[j]}

\* a header-only table in each table format, parsed by a fresh importer or
\* by one whose mapping was set before
InitColumns ==
    /\ ImportIdle
    /\ \E f \in {"csv", "xlsx"}, c \in HeaderSamples,
          kw \in {k \in ParseKwargs : k.invert_negative},
          m \in {EmptyMapping, PartialMapping} :
          call = [fn |-> "parse", file |-> TableFile(f, TRUE, c, <<>>),
                  kw |-> kw, self_mapping |-> m, round |-> 1,
                  first |-> EmptyMapping]
    /\ ret = PendingParse

\* the same importer object parses the same file again with the same
\* options: self.mapping is what the first parse left
ParseAgain ==
    /\ call.fn = "parse"
    /\ ret.status # "pending"
    /\ call.round = 1
    /\ call' = [call EXCEPT !.self_mapping = ret.mapping, !.round = 2,
                            !.first = ret.mapping]
    /\ ret' = PendingParse
    /\ UNCHANGED importVars

NextColumns == CallCsvParse \/ CallExcelParse \/ ParseAgain

SpecColumns == InitColumns /\ [][NextColumns]_vars

\* the mapping the caller supplied: the mapping option, or the one set on
\* the importer before
GivenMapping ==
    IF call.kw.has_mapping THEN call.kw.mapping ELSE call.self_mapping

\* a non-empty caller mapping is the mapping parse worked with
UsedVerbatim == DOMAIN GivenMapping # {} => ret.mapping = GivenMapping

\* the positions, in the alias list of a field, of the aliases some column
\* carries when compared in lower case
Carried(columns, field) ==
    {a \in DOMAIN AliasesOf(field) :
        \E k \in DOMAIN columns : Lower(columns[k]) = AliasesOf(field)[a]}

\* with an empty caller mapping each field resolves to a column of the file
\* whose lower-cased name is the highest-priority alias carried, and stays
\* unresolved when no alias is carried
ByAliasPriority ==
    DOMAIN GivenMapping = {}
    => \A field \in {"date", "amount", "description"} :
          IF Carried(call.file.columns, field) = {}
          THEN field \notin DOMAIN ret.mapping
          ELSE /\ field \in DOMAIN ret.mapping
               /\ HasColumn(call.file.columns, ret.mapping[field])
               /\ \E a \in Carried(call.file.columns, field) :
                     /\ Lower(ret.mapping[field]) = AliasesOf(field)[a]
                     /\ \A b \in Carried(call.file.columns, field) : a <= b

Orderings(columns) ==
    {p \in [DOMAIN columns -> {columns[k] : k \in DOMAIN columns}] :
        \A i, j \in DOMAIN columns : i # j => p[i] # p[j]}

\* every ordering of the file's column names resolves to the mapping parse
\* worked with
SameForEveryOrdering ==
    \A p \in Orderings(call.file.columns) :
        auto_detect_columns(p) = ret.mapping

\* a second parse of the same file by the same importer works with the
\* mapping of the first
SameWhenRepeated == call.round = 2 => ret.mapping = call.first

DistinctIgnoringCase(columns) ==
    \A i, j \in DOMAIN columns :
        i # j => Lower(columns[i]) # Lower(columns[j])

\* C13 as stated: a non-empty caller mapping is used verbatim; with an empty
\* one each field resolves to the column matching the highest-priority
\* alias, the same for every ordering of the distinct column names and for
\* repeated invocations.
C13_ColumnResolution ==
    ParseFinished
    => /\ UsedVerbatim
       /\ ByAliasPriority
       /\ DOMAIN GivenMapping = {} => SameForEveryOrdering
       /\ SameWhenRepeated

\* C13 amended: the same, with the orderings taken over column names that
\* are distinct when compared without regard to case.
C13_ColumnResolutionIgnoringCase ==
    ParseFinished
    => /\ UsedVerbatim
       /\ ByAliasPriority
       /\ (DOMAIN GivenMapping = {}
             /\ DistinctIgnoringCase(call.file.columns))
          => SameForEveryOrdering
       /\ SameWhenRepeated

\* a lower-priority date alias stands before the highest-priority one and
\* auto-detection took the latter, on the second parse
C13_Witness ==
    /\ ParseFinished
    /\ call.round = 2
    /\ DOMAIN GivenMapping = {}
    /\ call.file.columns = <<ColPostingDate, ColDate, ColAmt>>
    /\ ret.mapping =
          [f \in {"date", "amount"} |-> IF f = "date" THEN ColDate ELSE ColAmt]

---------------------------------------------------------------------------
(* Sign policy                                                             *)

\* the amount of record k as the source file gives it
SourceAmount(file, k) ==
    IF IsTable(file)
    THEN LET cell == RowCell(file.columns, file.rows[k],
                             MappingInForce["amount"])
         IN  IF cell.kind = "na" THEN NaN ELSE Num(cell.v)
    ELSE Num(file.records[k].amount.v)

\* |a| for a negative amount when inversion is requested, else a
SignPolicy(a, invert_negative) ==
    IF invert_negative /\ ~a.nan /\ a.v < 0 THEN Num(-a.v) ELSE a

NonNegative(a) == ~a.nan /\ a.v >= 0

\* the returned transactions stem, in file order, from records of the file
\* and carry the amount the sign policy gives
FollowsSignPolicy(txs, file, invert_negative) ==
    \E from \in [DOMAIN txs -> RecordIndices(file)] :
        /\ \A i, j \in DOMAIN txs : i < j => from[i] < from[j]
        /\ \A k \in DOMAIN txs :
              txs[k].amount =
                 SignPolicy(SourceAmount(file, from[k]), invert_negative)

\* the delimited-text file with the one row (2024-01-15, -42.50, UBER RIDE)
UberRow == <<DateCell(IsoDate(36)), NumCell(-42500), TextCell(UberRide)>>

\* C14: with invert_negative a negative source amount a is returned as |a|,
\* so every returned amount is >= 0; every other amount is returned
\* unchanged; the row (2024-01-15, -42.50, UBER RIDE) with invert_negative
\* yields exactly one transaction of amount 42.50 and description UBER RIDE.
C14_SignPolicy ==
    (ParseFinished /\ ret.status = "returned")
    => /\ FollowsSignPolicy(ret.value, call.file, call.kw.invert_negative)
       /\ call.kw.invert_negative
          => \A k \in DOMAIN ret.value : NonNegative(ret.value[k].amount)
       /\ (/\ call.file.format = "csv"
           /\ call.file.columns = StdColumns
           /\ call.file.rows = <<UberRow>>
           /\ DOMAIN GivenMapping = {}
           /\ call.kw.invert_negative)
          => /\ Len(ret.value) = 1
             /\ ret.value[1].amount = Num(42500)
             /\ ret.value[1].description = UberRide

---------------------------------------------------------------------------
(* MLCategorizer: train and predict calls on one instance                  *)

\* variant: an exception of fit leaves train
MLCategorizer_train_unguarded(m, txs, has_sklearn, fit_ok) ==
    IF /\ has_sklearn
       /\ UsableCount(txs) >= MinTrain
       /\ ~(fit_ok /\ Cardinality(Classes(txs)) >= 2)
    THEN [status |-> "raised", value |-> NoCategory,
          ml |-> [model |-> TRUE, is_trained |-> FALSE, classes |-> {}]]
    ELSE [status |-> "returned", value |-> NoCategory,
          ml |-> train(m, txs, has_sklearn, fit_ok)]

\* a call of train as its caller sees it: "except Exception" around fit
\* leaves nothing to propagate; train returns None
MLCategorizer_train(m, txs, has_sklearn, fit_ok) ==
    [status |-> "returned", value |-> NoCategory,
     ml |-> train(m, txs, has_sklearn, fit_ok)]

\* a call of predict as its caller sees it: the bare except returns None
\* predict_ok says whether self.model.predict answers; a fitted model
\* answers with one of its classes
MLCategorizer_predict(m, predict_ok) ==
    {[status |-> "returned", value |-> c, ml |-> m] :
        c \in IF m.is_trained /\ m.model /\ predict_ok THEN m.classes
              ELSE {NoCategory}}

MaxCalls == 3

StoredBlank == Expense(Num(5000), Upper(Food), EmptyText, IsoDate(0))

StoredUnlabelled == Expense(Num(5000), NoCategory, Cafe, IsoDate(0))

\* stored expenses to train on: none, one short of the minimum, the minimum,
\* more records than the minimum of which too few are usable, and the
\* minimum with a single category
TrainingSets ==
    {<<>>,
     SubSeq(TrainingStore, 1, MinTrain - 1),
     TrainingStore,
     SubSeq(TrainingStore, 1, MinTrain - 1) \o <<StoredBlank, StoredUnlabelled>>,
     [k \in 1..MinTrain |-> StoredLunch]}

PendingML == [status |-> "pending", value |-> NoCategory, ml |-> NoModel]

\* ml_categorizer = MLCategorizer(); call.most_usable is the largest number
\* of usable examples a train call was given so far
InitML ==
    /\ ImportIdle
    /\ call = [fn |-> "ml", op |-> "new", n |-> 0, most_usable |-> 0,
               txs |-> <<>>, has_sklearn |-> FALSE, fit_ok |-> FALSE,
               description |-> EmptyText, predict_ok |-> FALSE]
    /\ ret = PendingML

CallTrain ==
    /\ call.fn = "ml"
    /\ call.n < MaxCalls
    /\ ret.status # "raised"
    /\ \E txs \in TrainingSets, has_sklearn \in BOOLEAN, fit_ok \in BOOLEAN :
          /\ ret' = MLCategorizer_train(ml, txs, has_sklearn, fit_ok)
          /\ call' = [call EXCEPT
                        !.op = "train", !.n = @ + 1,
                        !.most_usable = IF UsableCount(txs) > @
                                        THEN UsableCount(txs) ELSE @,
                        !.txs = txs, !.has_sklearn = has_sklearn,
                        !.fit_ok = fit_ok, !.description = EmptyText]
    /\ ml' = ret'.ml
    /\ UNCHANGED <<store, pc, args, history, transactions, existing_data,
                   new_txs,
                   stats, idx, outcome, store0>>

CallPredict ==
    /\ call.fn = "ml"
    /\ call.n < MaxCalls
    /\ ret.status # "raised"
    /\ \E description \in {EmptyText, UberRide, Lunch}, predict_ok \in BOOLEAN :
          /\ ret' \in MLCategorizer_predict(ml, predict_ok)
          /\ call' = [call EXCEPT !.op = "predict", !.n = @ + 1,
                                  !.description = description,
                                  !.predict_ok = predict_ok]
    /\ ml' = ret'.ml
    /\ UNCHANGED <<store, pc, args, history, transactions, existing_data,
                   new_txs,
                   stats, idx, outcome, store0>>

NextML == CallTrain \/ CallPredict

SpecML == InitML /\ [][NextML]_vars

\* C15: a categorizer whose train calls were all given fewer than 10 usable
\* labelled examples answers none to every predict.
C15_UndertrainedPredictsNone ==
    (call.fn = "ml" /\ call.op = "predict" /\ call.most_usable < MinTrain)
    => ret.value = NoCategory

\* predict after a train call on more than 10 records of which only 9 are
\* usable, with scikit-learn present
C15_Witness ==
    /\ call.fn = "ml"
    /\ call.op = "predict"
    /\ call.n = 2
    /\ call.has_sklearn
    /\ Len(call.txs) > MinTrain
    /\ call.most_usable = MinTrain - 1
    /\ call.description = UberRide
    /\ ret.value = NoCategory

\* the last call was a train call that reached fit, and fit raised
FitFailed ==
    /\ call.op = "train"
    /\ call.has_sklearn
    /\ UsableCount(call.txs) >= MinTrain
    /\ ~(call.fit_ok /\ Cardinality(Classes(call.txs)) >= 2)

\* C16: no call of train or predict raises to its caller; a failure while
\* fitting leaves the categorizer untrained; predict on an untrained
\* categorizer, and predict whose model fails, return none.
C16_NeverRaises ==
    call.fn = "ml"
    => /\ ret.status # "raised"
       /\ FitFailed => ~ml.is_trained
       /\ (call.op = "predict" /\ (~ml.is_trained \/ ~call.predict_ok))
          => ret.value = NoCategory

\* predict on a categorizer whose last fit failed
C16_Witness ==
    /\ call.fn = "ml"
    /\ call.op = "predict"
    /\ call.txs = [k \in 1..MinTrain |-> StoredLunch]
    /\ call.has_sklearn
    /\ ml.model
    /\ ~ml.is_trained
    /\ ret.status = "returned"
    /\ ret.value = NoCategory

---------------------------------------------------------------------------
(* Further properties of the import command                                *)

\* the loop over the parsed transactions has completed
Processed ==
    \/ pc \in {"review", "prompt", "confirm", "save"}
    \/ pc = "done" /\ outcome \in {"previewed", "cancelled", "imported"}

\* the parsed transactions is_duplicate reports against the records stored
\* when the run began
DuplicatesOfStored ==
    {k \in DOMAIN transactions :
        is_duplicate(store0, transactions[k], DefaultToleranceDays)}

\* txs are, in order and up to their category, the parsed transactions at
\* the positions keep
IsSelection(txs, keep) ==
    \E from \in [DOMAIN txs -> keep] :
        /\ \A i, j \in DOMAIN txs : i < j => from[i] < from[j]
        /\ \A k \in keep : \E i \in DOMAIN txs : from[i] = k
        /\ \A i \in DOMAIN txs :
              [txs[i] EXCEPT !.category = NoCategory] = transactions[from[i]]

\* some stored record has the amount and date of tx and a description
\* that, apart from case, contains tx's or is contained in it
MatchesStored(tx) ==
    \E k \in DOMAIN store0 :
        /\ store0[k].amount = tx.amount
        /\ \/ Contains(Upper(store0[k].note), Upper(tx.description))
           \/ Contains(Upper(tx.description), Upper(store0[k].note))
        /\ store0[k].timestamp = tx.date

\* C17: with skip_duplicates the new transactions are the parsed ones
\* without exactly those is_duplicate reports against the stored records,
\* each counted as a duplicate; one row matching a stored record gives no
\* new transaction and a duplicate count of 1; without skip_duplicates
\* nothing is excluded and the count stays 0.
C17_SkipsExactlyDuplicates ==
    Processed
    => /\ args.skip_duplicates
          => /\ IsSelection(new_txs, DOMAIN transactions \ DuplicatesOfStored)
             /\ stats.duplicates = Cardinality(DuplicatesOfStored)
             /\ (Len(transactions) = 1 /\ MatchesStored(transactions[1]))
                => new_txs = <<>> /\ stats.duplicates = 1
       /\ ~args.skip_duplicates
          => /\ IsSelection(new_txs, DOMAIN transactions)
             /\ stats.duplicates = 0
       /\ stats.new = Len(new_txs)

\* the one-row file whose row matches the stored ride, with skip_duplicates
C17_Witness ==
    /\ Processed
    /\ args.skip_duplicates
    /\ Len(transactions) = 1
    /\ MatchesStored(transactions[1])
    /\ new_txs = <<>>
    /\ stats.duplicates = 1

\* the run went past the final confirmation and has ended: with success, or
\* with an exception (on the built-in rules only add_expense raises one)
ConfirmedAndEnded ==
    \/ pc = "done" /\ outcome = "imported"
    \/ pc = "crashed"

\* C18: on final confirmation every surviving transaction is persisted
\* exactly once: the store gains as many records as the new count, each with
\* the transaction's amount, its description as note and its date as
\* timestamp, and with the category "Uncategorized" when the transaction
\* has none.
C18_EverySurvivorPersisted ==
    ConfirmedAndEnded
    => /\ Len(AddedByRun) = stats.new
       /\ \A k \in DOMAIN AddedByRun :
             /\ AddedByRun[k].amount = new_txs[k].amount
             /\ AddedByRun[k].note = new_txs[k].description
             /\ AddedByRun[k].timestamp = new_txs[k].date
             /\ new_txs[k].category = NoCategory
                => AddedByRun[k].category = Uncategorized

\* the command reads a financial-exchange file that has no account, no
\* statement or no transaction
EmptyOfxRun ==
    /\ args.exists
    /\ DetectFormat(args) = "ofx"
    /\ args.file.format = "ofx"
    /\ args.file.readable
    /\ args.file.account # "ok" \/ args.file.records = <<>>

\* C19: the financial-exchange parser answers a container without account,
\* statement or transactions with an empty sequence and no error; a run
\* whose parse yields no transaction stops after reporting it, before
\* deduplication, categorization, confirmation and persistence, with the
\* store unchanged.
C19_NothingToImport ==
    /\ (EmptyOfxRun /\ pc \notin {"start", "parse", "killed"})
       => pc = "done" /\ outcome = "no_transactions"
    /\ outcome = "no_transactions"
       => /\ pc = "done"
          /\ store = store0
          /\ existing_data = <<>>
          /\ ml = NoModel
          /\ new_txs = <<>>
          /\ stats = NoStats

\* a run on a file whose account has no statement, with expenses stored
C19_Witness ==
    /\ pc = "done"
    /\ outcome = "no_transactions"
    /\ args.file.format = "ofx"
    /\ args.file.account = "nostatement"
    /\ Len(store0) = 2

---------------------------------------------------------------------------
(* categorization.py: RuleCategorizer.__init__                             *)

\* a rule file on disk: absent, not parseable as JSON, or a list of rules
NoRuleFile == [kind |-> "absent", rules |-> <<>>]

BrokenRuleFile == [kind |-> "broken", rules |-> <<>>]

RuleFile(rules) == [kind |-> "rules", rules |-> rules]

\* self.rules after __init__(rules_path); has_path says whether rules_path
\* was given, file is what the path leads to
RuleCategorizer_init(has_path, file) ==
    IF has_path /\ file.kind # "absent"
    THEN IF file.kind = "rules" THEN file.rules ELSE <<>>
    ELSE DefaultRules

RuleFileSamples ==
    {NoRuleFile, BrokenRuleFile}
    \cup {RuleFile(r) : r \in SeqsUpTo(RuleSamples, MaxRules)}

PendingRules == [status |-> "pending", value |-> <<>>, category |-> NoCategory]

InitRules ==
    /\ ImportIdle
    /\ \E has_path \in BOOLEAN, file \in RuleFileSamples :
          call = [fn |-> "RuleCategorizer", has_path |-> has_path,
                  file |-> file, description |-> EmptyText]
    /\ ret = PendingRules

\* rule_categorizer = RuleCategorizer(rules_path)
CallRuleCategorizer ==
    /\ call.fn = "RuleCategorizer"
    /\ ret.status = "pending"
    /\ ret' = [status |-> "constructed",
               value |-> RuleCategorizer_init(call.has_path, call.file),
               category |-> NoCategory]
    /\ UNCHANGED <<importVars, call>>

\* rule_categorizer.categorize(description) on the constructed categorizer
CallCategorizeWith ==
    /\ call.fn = "RuleCategorizer"
    /\ ret.status = "constructed"
    /\ \E d \in CatDescriptions :
          /\ call' = [call EXCEPT !.description = d]
          /\ ret' = [status |-> categorize(ret.value, d, Num(0)).status,
                     value |-> ret.value,
                     category |-> categorize(ret.value, d, Num(0)).value]
    /\ UNCHANGED importVars

NextRules == CallRuleCategorizer \/ CallCategorizeWith

SpecRules == InitRules /\ [][NextRules]_vars

\* C20: the categorizer holds the built-in rules when no rule file is
\* present and when the rule file is present but does not parse; a file
\* unreadable as rules never leaves it with an empty rule list.
C20_DefaultsWhenNoUsableFile ==
    (/\ call.fn = "RuleCategorizer"
     /\ ret.status # "pending"
     /\ \/ ~call.has_path
        \/ call.file.kind \in {"absent", "broken"})
    => ret.value = DefaultRules

---------------------------------------------------------------------------
(* Format selection                                                        *)

\* the format an extension stands for, whatever its case; "" for none
FormatOfExtension(suffix) ==
    IF Lower(suffix) = Lower(<<".","C","S","V">>) THEN "csv"
    ELSE IF Lower(suffix) \in {Lower(<<".","X","L","S","X">>),
                               Lower(<<".","X","L","S">>)} THEN "xlsx"
    ELSE IF Lower(suffix) = Lower(<<".","O","F","X">>) THEN "ofx"
    ELSE ""

\* the explicit format as given, else the one inferred from the extension
SelectedFormat ==
    IF args.format # "" THEN args.format ELSE FormatOfExtension(args.suffix)

RefusedOutcomes ==
    {"file_not_found", "format_not_detected", "unsupported_format"}

\* C21: an explicit format is used as given, otherwise the format follows
\* from the extension whatever its case; a missing file, a format neither
\* given nor inferable and an unsupported format stop the run before any
\* parser is invoked, with the store unchanged.
C21_FormatSelection ==
    pc \notin {"start", "killed"}
    => IF \/ ~args.exists
          \/ SelectedFormat \notin {"csv", "xlsx", "ofx"}
       THEN /\ pc = "done"
            /\ outcome \in RefusedOutcomes
            /\ transactions = <<>>
            /\ store = store0
       ELSE /\ outcome \notin RefusedOutcomes
            /\ \A k \in DOMAIN transactions :
                  transactions[k].source = SelectedFormat

\* a file named with an upper-case .CSV extension and no explicit format was
\* parsed as delimited text
C21_Witness ==
    /\ args.format = ""
    /\ args.suffix = <<".","C","S","V">>
    /\ pc = "confirm"
    /\ Len(transactions) = 1
    /\ transactions[1].source = "csv"

---------------------------------------------------------------------------
(* Categorization order                                                    *)

\* what the built-in rules say of a surviving transaction
RuleResult(tx) == categorize(DefaultRules, tx.description, tx.amount).value

\* C22: the rules are consulted first and the statistical predictor is
\* called only for the transactions the rules leave without category; a
\* rule's category is never replaced by a prediction; the auto-categorized
\* counter counts exactly the transactions that leave the step with a
\* category.
C22_RulesBeforePrediction ==
    pc \in {"process", "review"}
    => /\ \A k \in DOMAIN new_txs :
             RuleResult(new_txs[k]) # NoCategory
             => new_txs[k].category = RuleResult(new_txs[k])
       /\ call.predict_calls =
             Cardinality({k \in DOMAIN new_txs :
                             RuleResult(new_txs[k]) = NoCategory})
       /\ stats.auto_cat =
             Cardinality({k \in DOMAIN new_txs :
                             new_txs[k].category # NoCategory})

\* with a trained predictor, one transaction was categorized by a rule and
\* one by a prediction
C22_Witness ==
    /\ pc = "process"
    /\ idx > Len(transactions)
    /\ ml.is_trained
    /\ Len(new_txs) = 2
    /\ RuleResult(new_txs[1]) = Transport
    /\ new_txs[1].category = Transport
    /\ RuleResult(new_txs[2]) = NoCategory
    /\ new_txs[2].category # NoCategory
    /\ call.predict_calls = 1
    /\ stats.auto_cat = 2

---------------------------------------------------------------------------
(* Training again on too few examples                                      *)

\* the latest train call on the instance was given too few usable examples
LastTrainTooSmall ==
    /\ call.fn = "ml"
    /\ call.op \in {"train", "predict"}
    /\ UsableCount(call.txs) < MinTrain

\* C23: after a train call with fewer than 10 usable examples the
\* categorizer is untrained and predict returns none, whatever its earlier
\* state, also when an earlier train call on the instance succeeded.
C23_RetrainTooSmallUntrains ==
    LastTrainTooSmall
    => /\ ~ml.is_trained
       /\ call.op = "predict" => ret.value = NoCategory

---------------------------------------------------------------------------
(* The snapshot of stored records                                          *)

\* the positions of new_txs that hold, up to the category, the parsed
\* transaction tx
KeptCopies(tx) ==
    {i \in DOMAIN new_txs : [new_txs[i] EXCEPT !.category = NoCategory] = tx}

ParsedCopies(tx) == {i \in DOMAIN transactions : transactions[i] = tx}

\* C24: the duplicate decisions of a run rest on the stored records read
\* once at its start; transactions accepted earlier in the run are not
\* compared against, so identical rows that match no stored record are all
\* kept as new.
C24_SnapshotOnly ==
    Processed
    => /\ existing_data = store0
       /\ \A k \in DOMAIN transactions :
             ~is_duplicate(store0, transactions[k], DefaultToleranceDays)
             => Cardinality(KeptCopies(transactions[k]))
                   = Cardinality(ParsedCopies(transactions[k]))

\* two identical rows, neither matching the stored records, both kept, with
\* skip_duplicates on, seen while the save loop has already written one
C24_Witness ==
    /\ pc = "save"
    /\ idx = 2
    /\ args.skip_duplicates
    /\ store0 # <<>>
    /\ Len(transactions) = 2
    /\ transactions[1] = transactions[2]
    /\ Len(new_txs) = 2

---------------------------------------------------------------------------
(* Interactive review                                                      *)

\* what one step may do to the new transactions while the review runs
ReviewStep ==
    pc \in {"review", "prompt"}
    => /\ Len(new_txs') = Len(new_txs)
       /\ \A k \in DOMAIN new_txs :
             IF new_txs[k].category # NoCategory
             THEN new_txs'[k] = new_txs[k]
             ELSE \/ new_txs'[k] = new_txs[k]
                  \/ new_txs'[k].category =
                        (IF call'.answer = EmptyText THEN General
                         ELSE call'.answer)
                     /\ [new_txs'[k] EXCEPT !.category = NoCategory]
                           = new_txs[k]

\* C25: the review offers only transactions still without a category: no
\* step of it changes a transaction that has one, and an offered
\* transaction gets what the operator typed, or "General" when the operator
\* typed nothing.
C25_ReviewTouchesOnlyUncategorized == [][ReviewStep]_vars

\* a reviewed run: the first transaction kept the category of its rule, the
\* second was offered and the operator typed nothing
C25_Witness ==
    /\ pc = "confirm"
    /\ args.interactive
    /\ Len(new_txs) = 2
    /\ new_txs[1].category = Transport
    /\ RuleResult(new_txs[2]) = NoCategory
    /\ new_txs[2].category = General
    /\ call.answer = EmptyText

---------------------------------------------------------------------------
(* Run statistics                                                          *)

\* txs are, up to their category, parsed transactions in file order
InFileOrder(txs) ==
    \E from \in [DOMAIN txs -> DOMAIN transactions] :
        /\ \A i, j \in DOMAIN txs : i < j => from[i] < from[j]
        /\ \A i \in DOMAIN txs :
              [txs[i] EXCEPT !.category = NoCategory] = transactions[from[i]]

---------------------------------------------------------------------------
(* The same import run a second time                                       *)

\* after a run that reported success the command is invoked again with the
\* same file and options; call.imported keeps the first run's new count
ImportAgain ==
    /\ pc = "done"
    /\ outcome = "imported"
    /\ call.run = 1
    /\ call' = [call EXCEPT !.run = 2, !.imported = Len(new_txs),
                            !.predict_calls = 0, !.answer = EmptyText]
    /\ store0' = store
    /\ pc' = "start"
    /\ outcome' = "none"
    /\ transactions' = <<>>
    /\ existing_data' = <<>>
    /\ new_txs' = <<>>
    /\ stats' = NoStats
    /\ idx' = 0
    /\ ml' = NoModel
    /\ UNCHANGED <<store, args, history, ret>>

NextReimport == NextImport \/ ImportAgain

\* the first run starts from an empty store or from one stored expense
InitReimport == InitImport /\ store \in {<<>>, <<StoredUber>>}

SpecReimport == InitReimport /\ [][NextReimport]_vars

\* C27: after a confirmed import with skip_duplicates, a second import of
\* the same file with the same options finds every parsed transaction to be
\* a duplicate, so its new count is 0 and the store gains no record.
C27_ReimportAddsNothing ==
    (call.run = 2 /\ args.skip_duplicates)
    => /\ store = store0
       /\ Processed
          => /\ stats.new = 0
             /\ new_txs = <<>>
             /\ stats.duplicates = Len(transactions)

\* the second run of a file whose two transactions the first run stored
C27_Witness ==
    /\ call.run = 2
    /\ args.skip_duplicates
    /\ call.imported = 2
    /\ pc = "done"
    /\ outcome = "imported"
    /\ stats.duplicates = 2
    /\ stats.new = 0

---------------------------------------------------------------------------
(* Stored records without a note                                           *)

\* some stored record has an empty note, an amount within 0.01 of the
\* candidate's and a timestamp within tolerance_days of the candidate's date
BlankNoteRecordNear ==
    \E k \in DOMAIN call.existing :
        /\ call.existing[k].note = EmptyText
        /\ AmountWithinTolerance(call.existing[k].amount,
                                 call.transaction.amount)
        /\ WithinWholeDays(call.existing[k].timestamp, call.transaction.date,
                           call.tolerance_days)

\* C29: a stored record with an empty note satisfies the description
\* condition for every candidate, so a candidate within 0.01 in amount and
\* within tolerance in date of such a record is reported as a duplicate.
C29_EmptyNoteMatchesAll ==
    (DupReturned /\ BlankNoteRecordNear) => ret.value = TRUE

---------------------------------------------------------------------------
(* One importer object parsing two files                                   *)

\* one-row tables in each table format, and an unreadable file
CarryFiles ==
    {TableFile(f, TRUE, c, <<r>>) :
        f \in {"csv", "xlsx"}, c \in ColumnSamples, r \in RowSamples}
    \cup {TableFile(f, FALSE, <<>>, <<>>) : f \in {"csv", "xlsx"}}

\* a fresh importer parses a first file, with or without a mapping option
InitCarry ==
    /\ ImportIdle
    /\ \E file \in CarryFiles, kw \in ParseKwargs :
          call = [fn |-> "parse", file |-> file, kw |-> kw,
                  self_mapping |-> EmptyMapping, round |-> 1,
                  first |-> EmptyMapping]
    /\ ret = PendingParse

\* the same importer object then parses another file of its format, the
\* call supplying no mapping: self.mapping is what the first parse left
ParseOther ==
    /\ call.fn = "parse"
    /\ ret.status # "pending"
    /\ call.round = 1
    /\ \E file \in CarryFiles, kw \in ParseKwargs :
          /\ file.format = call.file.format
          /\ ~kw.has_mapping
          /\ call' = [call EXCEPT !.file = file, !.kw = kw,
                                  !.self_mapping = ret.mapping, !.round = 2,
                                  !.first = ret.mapping]
    /\ ret' = PendingParse
    /\ UNCHANGED importVars

NextCarry == CallCsvParse \/ CallExcelParse \/ ParseOther

SpecCarry == InitCarry /\ [][NextCarry]_vars

\* what a new importer object returns for the file and options of the call
FreshParse ==
    IF call.file.format = "csv"
    THEN CSVImporter_parse(EmptyMapping, call.file, call.kw)
    ELSE ExcelImporter_parse(EmptyMapping, call.file, call.kw)

\* C28: the result of parse depends only on the file and the arguments of
\* that call: a later call that supplies no mapping on an importer that has
\* parsed before gives what a new importer gives for the same file.
C28_NoMappingCarriedOver ==
    (call.fn = "parse" /\ call.round = 2 /\ ret.status # "pending")
    => /\ ret.status = FreshParse.status
       /\ ret.value = FreshParse.value

---------------------------------------------------------------------------
(* datastore.py (JSONDataStore), history.py and the commands add, delete,  *)
(* edit, undo and nuke of main.py                                          *)

\* the "date" field: strftime("%Y-%m-%d %H:%M") of the timestamp
DisplayDate(timestamp) == [kind |-> "display", t |-> timestamp.t]

\* the dictionary add_expense builds
Entry(expense_id, amount, category, note, timestamp) ==
    [id |-> expense_id, date |-> DisplayDate(timestamp),
     timestamp |-> timestamp, amount |-> amount, category |-> category,
     note |-> note]

\* a missing expense (None), also a key missing from a history entry
NoEntry == [id |-> "none"]

JSONDataStore_add_expense(data, amount, category, note, timestamp, expense_id) ==
    Append(data, Entry(expense_id, amount, Upper(category), note, timestamp))

\* position of the first item with this id, 0 when there is none
IndexOf(data, expense_id) ==
    LET hits == {k \in DOMAIN data : data[k].id = expense_id}
    IN  IF hits = {} THEN 0
        ELSE CHOOSE k \in hits : \A j \in hits : k <= j

get_expense(data, expense_id) ==
    IF IndexOf(data, expense_id) = 0 THEN NoEntry
    ELSE data[IndexOf(data, expense_id)]

\* dict.update(updates)
DictUpdate(item, updates) ==
    [f \in DOMAIN item \cup DOMAIN updates |->
        IF f \in DOMAIN updates THEN updates[f] ELSE item[f]]

\* the list update_expense saves; it returns False when no item has the id
update_expense(data, expense_id, updates) ==
    IF IndexOf(data, expense_id) = 0 THEN data
    ELSE [data EXCEPT ![IndexOf(data, expense_id)] = DictUpdate(@, updates)]

\* the list delete_expense saves: every item with the id is left out
delete_expense(data, expense_id) ==
    SelectSeq(data, LAMBDA item : item.id # expense_id)

MaxHistory == 1000

\* the entry log_transaction appends; the time of logging is never read
LogEntry(action, expense_id, before, after, expense) ==
    [action |-> action, expense_id |-> expense_id, before |-> before,
     after |-> after, expense |-> expense]

log_transaction(hist, action, expense_id, before, after, expense) ==
    LET appended == Append(hist, LogEntry(action, expense_id, before, after,
                                          expense))
    IN  IF Len(appended) > MaxHistory
        THEN SubSeq(appended, Len(appended) - MaxHistory + 1, Len(appended))
        ELSE appended

\* variant: the oldest entry is taken
pop_first_transaction(hist) ==
    IF hist = <<>> THEN [last |-> NoEntry, history |-> hist]
    ELSE [last |-> Head(hist), history |-> Tail(hist)]

\* the entry returned (None on an empty history) and the list saved
pop_last_transaction(hist) ==
    IF hist = <<>> THEN [last |-> NoEntry, history |-> hist]
    ELSE [last |-> hist[Len(hist)],
          history |-> SubSeq(hist, 1, Len(hist) - 1)]

\* updates_clean: the 'before' state without its id
UpdatesClean(before) == [f \in DOMAIN before \ {"id"} |-> before[f]]

\* the body of undo's loop for one popped entry: the expense list it
\* leaves, and whether add_expense raised on the timestamp
UndoEntry(data, last_tx) ==
    IF last_tx.action = "add"
    THEN [data |-> delete_expense(data, last_tx.expense_id),
          raised |-> FALSE]
    ELSE IF last_tx.action = "delete"
    THEN IF last_tx.expense = NoEntry
         THEN [data |-> data, raised |-> FALSE]
         ELSE IF ~AddExpenseOk(last_tx.expense.timestamp)
         THEN [data |-> data, raised |-> TRUE]
         ELSE [data |-> JSONDataStore_add_expense(
                            data, last_tx.expense.amount,
                            last_tx.expense.category, last_tx.expense.note,
                            last_tx.expense.timestamp, last_tx.expense.id),
               raised |-> FALSE]
    ELSE IF last_tx.action = "edit" /\ last_tx.before # NoEntry
    THEN [data |-> update_expense(data, last_tx.expense_id,
                                  UpdatesClean(last_tx.before)),
          raised |-> FALSE]
    ELSE [data |-> data, raised |-> FALSE]

\* "for _ in range(steps)", with steps iterations left
RECURSIVE UndoLoop(_, _, _)
UndoLoop(data, hist, steps) ==
    IF steps = 0 THEN [data |-> data, history |-> hist]
    ELSE LET popped == pop_last_transaction(hist)
         IN  IF popped.last = NoEntry
             THEN [data |-> data, history |-> popped.history]
             ELSE LET done == UndoEntry(data, popped.last)
                  IN  IF done.raised
                      THEN [data |-> done.data, history |-> popped.history]
                      ELSE UndoLoop(done.data, popped.history, steps - 1)

undo(data, hist, steps) ==
    IF steps < 1 THEN [data |-> data, history |-> hist]
    ELSE UndoLoop(data, hist, steps)

\* utils.parse_date: the datetime, or None
ParseDateOk(date_str) == date_str.kind \in {"iso", "other"}

parse_date(date_str) == IsoDate(date_str.t)

\* the updates dictionary of edit, from the options given
EditUpdates(opts) ==
    LET fields == (IF opts.amount.has THEN {"amount"} ELSE {})
                  \cup (IF opts.category.has THEN {"category"} ELSE {})
                  \cup (IF opts.note.has THEN {"note"} ELSE {})
                  \cup (IF opts.date.has THEN {"date", "timestamp"} ELSE {})
    IN  [f \in fields |->
            IF f = "amount" THEN opts.amount.v
            ELSE IF f = "category" THEN Upper(opts.category.v)
            ELSE IF f = "note" THEN opts.note.v
            ELSE IF f = "date" THEN DisplayDate(parse_date(opts.date.v))
            ELSE parse_date(opts.date.v)]

---------------------------------------------------------------------------
(* Commands run one after another on the expense list and the undo log     *)

MaxCommands == 3

MaxSteps == 2

\* the ids uuid4 can give
Ids == {"a1b2c3d4", "e5f6a7b8"}

StoredIds(data) == {data[k].id : k \in DOMAIN data}

AddSamples ==
    {[amount |-> Num(42500), category |-> Transport, note |-> UberRide],
     [amount |-> Num(12000), category |-> Food, note |-> EmptyText]}

\* an option left out (None); v only gives the record its shape
Omitted(v) == [has |-> FALSE, v |-> v]

EditOptions(amount, category, note, date) ==
    [amount |-> amount, category |-> category, note |-> note, date |-> date]

EditSamples ==
    {EditOptions(Some(Num(5000)), Omitted(EmptyText), Omitted(EmptyText),
                 Omitted(JunkDate)),
     EditOptions(Omitted(NaN), Some(Groceries), Some(Cafe),
                 Omitted(JunkDate)),
     EditOptions(Omitted(NaN), Omitted(EmptyText), Omitted(EmptyText),
                 Some(OtherDate(96))),
     EditOptions(Some(Num(5000)), Omitted(EmptyText), Omitted(EmptyText),
                 Some(JunkDate)),
     EditOptions(Omitted(NaN), Omitted(EmptyText), Omitted(EmptyText),
                 Omitted(JunkDate))}

StoredRide ==
    Entry("a1b2c3d4", Num(42500), Upper(Transport), UberRide, IsoDate(36))

otherVars == <<pc, args, transactions, existing_data, new_txs, stats, idx,
               ml, outcome, store0, ret>>

\* the command now finished, with the expense list and the log it started
\* from, and the same for the command before it
Command(fn, expense_id, steps, logged) ==
    [fn |-> fn, id |-> expense_id, steps |-> steps, logged |-> logged,
     store_before |-> store, history_before |-> history,
     prev |-> [fn |-> call.fn, id |-> call.id, logged |-> call.logged,
               store_before |-> call.store_before],
     count |-> call.count + 1, unlogged |-> call.unlogged \/ fn = "nuke"]

InitUndo ==
    /\ store \in {<<>>, <<StoredRide>>}
    /\ pc = "idle"
    /\ args = NoArgs
    /\ transactions = <<>>
    /\ existing_data = <<>>
    /\ new_txs = <<>>
    /\ stats = NoStats
    /\ idx = 0
    /\ ml = NoModel
    /\ outcome = "none"
    /\ store0 = store
    /\ history = <<>>
    /\ call = [fn |-> "none", id |-> "none", steps |-> 0, logged |-> FALSE,
               store_before |-> store, history_before |-> <<>>,
               prev |-> [fn |-> "none", id |-> "none", logged |-> FALSE,
                         store_before |-> store],
               count |-> 0, unlogged |-> FALSE]
    /\ ret = Pending

\* spend add: the id is one no stored expense has
CmdAdd ==
    /\ call.count < MaxCommands
    /\ \E a \in AddSamples, expense_id \in Ids \ StoredIds(store),
          now \in {IsoDate(48)} :
          LET data == JSONDataStore_add_expense(store, a.amount, a.category,
                                                a.note, now, expense_id)
              entry == data[Len(data)]
          IN  /\ store' = data
              /\ history' = log_transaction(history, "add", entry.id, NoEntry,
                                            NoEntry, entry)
              /\ call' = Command("add", entry.id, 0, TRUE)
    /\ UNCHANGED otherVars

\* spend delete
CmdDelete ==
    /\ call.count < MaxCommands
    /\ \E expense_id \in Ids :
          LET target == get_expense(store, expense_id)
          IN  IF target # NoEntry
              THEN /\ store' = delete_expense(store, expense_id)
                   /\ history' = log_transaction(history, "delete", target.id,
                                                 NoEntry, NoEntry, target)
                   /\ call' = Command("delete", expense_id, 0, TRUE)
              ELSE /\ call' = Command("delete", expense_id, 0, FALSE)
                   /\ UNCHANGED <<store, history>>
    /\ UNCHANGED otherVars

\* spend edit, with the answer to "Apply these changes?"
CmdEdit ==
    /\ call.count < MaxCommands
    /\ \E expense_id \in Ids, opts \in EditSamples, yes \in BOOLEAN :
          LET target == get_expense(store, expense_id)
              updates == EditUpdates(opts)
          IN  IF \/ target = NoEntry
                 \/ (opts.date.has /\ ~ParseDateOk(opts.date.v))
                 \/ DOMAIN updates = {}
                 \/ ~yes
              THEN /\ call' = Command("edit", expense_id, 0, FALSE)
                   /\ UNCHANGED <<store, history>>
              ELSE LET data == update_expense(store, expense_id, updates)
                   IN  /\ store' = data
                       /\ history' = log_transaction(
                              history, "edit", expense_id, target,
                              get_expense(data, expense_id), NoEntry)
                       /\ call' = Command("edit", expense_id, 0, TRUE)
    /\ UNCHANGED otherVars

\* spend undo --steps n
CmdUndo ==
    /\ call.count < MaxCommands
    /\ \E steps \in 0..MaxSteps :
          /\ store' = undo(store, history, steps).data
          /\ history' = undo(store, history, steps).history
          /\ call' = Command("undo", "none", steps, FALSE)
    /\ UNCHANGED otherVars

\* spend nuke, confirmed: the expenses go, the log stays
CmdNuke ==
    /\ call.count < MaxCommands
    /\ store' = <<>>
    /\ call' = Command("nuke", "none", 0, FALSE)
    /\ UNCHANGED <<history, otherVars>>

NextUndo == CmdAdd \/ CmdDelete \/ CmdEdit \/ CmdUndo \/ CmdNuke

SpecUndo == InitUndo /\ [][NextUndo]_vars

Range(seq) == {seq[k] : k \in DOMAIN seq}

\* the same expenses, whatever their order in the list
SameExpenses(a, b) == Len(a) = Len(b) /\ Range(a) = Range(b)

\* what reversing one logged action means for the expense list
Reversed(data, entry) ==
    IF entry.action = "add"
    THEN SelectSeq(data, LAMBDA item : item # entry.expense)
    ELSE IF entry.action = "delete"
    THEN Append(data, entry.expense)
    ELSE [k \in DOMAIN data |->
            IF data[k].id = entry.expense_id THEN entry.before ELSE data[k]]

\* the newest n entries of the log reversed, newest first
RECURSIVE ReversedNewestFirst(_, _, _)
ReversedNewestFirst(data, hist, n) ==
    IF n = 0 \/ hist = <<>> THEN data
    ELSE ReversedNewestFirst(Reversed(data, hist[Len(hist)]),
                             SubSeq(hist, 1, Len(hist) - 1), n - 1)

UndoRan == call.fn = "undo" /\ call.steps >= 1

\* the expense the command before the undo named, as it was before that
\* command
Earlier == get_expense(call.prev.store_before, call.prev.id)

\* C30: undo reverses the last logged action and removes it from the
\* history: after add and undo the store holds the expenses it held before
\* the add; after delete and undo the expense is back with its id, amount,
\* category, note and timestamp; after a confirmed edit and undo every field
\* is as before the edit; undo --steps n takes the newest n entries (all of
\* them when there are fewer) off the history and reverses them newest
\* first.
C30_UndoReverses ==
    UndoRan =>
        /\ (call.steps = 1 /\ call.prev.logged /\ call.prev.fn = "add")
           => SameExpenses(store, call.prev.store_before)
        /\ (call.steps = 1 /\ call.prev.logged /\ call.prev.fn = "delete")
           => /\ \E k \in DOMAIN store :
                    /\ store[k].id = Earlier.id
                    /\ store[k].amount = Earlier.amount
                    /\ store[k].category = Earlier.category
                    /\ store[k].note = Earlier.note
                    /\ store[k].timestamp = Earlier.timestamp
              /\ SameExpenses(store, call.prev.store_before)
        /\ (call.steps = 1 /\ call.prev.logged /\ call.prev.fn = "edit")
           => /\ get_expense(store, call.prev.id) = Earlier
              /\ SameExpenses(store, call.prev.store_before)
        /\ LET had == Len(call.history_before)
               n == IF call.steps < had THEN call.steps ELSE had
           IN  /\ history = SubSeq(call.history_before, 1, had - n)
               /\ ~call.unlogged
                  => SameExpenses(store,
                                  ReversedNewestFirst(call.store_before,
                                                      call.history_before, n))

\* a confirmed edit and a delete of the stored expense, then undo --steps 2:
\* the history is empty and the expense is stored as it first was
C30_Witness ==
    /\ UndoRan
    /\ call.steps = 2
    /\ call.prev.fn = "delete"
    /\ call.prev.logged
    /\ Len(call.history_before) = 2
    /\ call.history_before[1].action = "edit"
    /\ history = <<>>
    /\ store = <<StoredRide>>

====
